---- MODULE Spec2Model ----
(***************************************************************************)
(* Model of the blunux-ai agent (crates/ai-agent): the conversation        *)
(* orchestrator of agent.rs with the memory files of memory.rs, the tool   *)
(* registry of tools/mod.rs and the safety checker of tools/safety.rs.     *)
(*                                                                         *)
(* One call of chat / chat_as_user / run_automation is a sequence of       *)
(* steps separated by the await points of the code: the call runs up to    *)
(* its first provider.complete, each completion is handled up to the first *)
(* tool, each execute_tool is one step.  The epilogue of the wrappers      *)
(* (swap back, insert, restore) belongs to the step in which the inner     *)
(* chat returns.                                                           *)
(*                                                                         *)
(* The daemon of daemon.rs is modelled with one task per connection, cut   *)
(* at its await points (next_line, agent.lock, the agent's awaits inside   *)
(* chat_as_user, write_all), the agent lock and the notification queue.    *)
(* SafetyChecker::check is also exercised on its own, call after call.     *)
(*                                                                         *)
(* The scheduler of automations.rs is one more task: it wakes, reloads     *)
(* automations.toml, and for each enabled automation whose cron expression *)
(* matches the wake time runs it under the agent lock and pushes the       *)
(* result under the lock of the queue.  Cron fields are parsed character   *)
(* by character; u32 values are kept as pairs of 32-bit safe halves.       *)
(***************************************************************************)
EXTENDS Integers, Sequences, FiniteSets, TLC

\* ---------------------------------------------------------------------------
\* Program constants
\* ---------------------------------------------------------------------------

MAX_TOOL_LOOP_ITERATIONS == 10

\* the most notifications one poll_notifications returns (daemon.rs)
POLL_BATCH == 10

\* ---------------------------------------------------------------------------
\* Bounds of the exploration
\* ---------------------------------------------------------------------------

\* calls of chat / chat_as_user / run_automation in one behaviour
MaxTurns == 2
\* round-trips of one turn in which the provider of Spec and SpecTools asks
\* for tools; in later round-trips it ends the turn or fails
MaxToolRounds == 1
\* turns in one behaviour of SpecLoop
MaxLoopTurns == 2
\* calls of SafetyChecker::check in one behaviour of SpecSafety
MaxChecks == 2
\* lines read by the daemon in one behaviour of SpecDaemon, over all
\* connections
MaxReads == 2
\* lines read by the daemon in one behaviour of SpecQueue
MaxPolls == 3
\* automation results pushed by the scheduler in one behaviour of SpecQueue
MaxQueuePushes == 6
\* lines read in SpecDispatch
MaxDispatchReads == 3
\* calls of field_matches in SpecField, and the largest value they are given
MaxFieldCalls == 1
MaxValue == 12
\* calls of cron_matches in SpecMatch
MaxCronCalls == 1
\* wakes of the scheduler and edits of automations.toml in SpecCron
MaxWakes == 3
MaxEdits == 1
\* wakes of the scheduler and lines read in SpecSched
MaxSchedWakes == 1
MaxSchedReads == 2
\* calls of chat / chat_as_user in one behaviour of SpecReply
MaxReplyTurns == 2
\* wakes of the scheduler and lines read in SpecBusy
MaxBusyWakes == 1
MaxBusyReads == 2
\* wakes of the scheduler in one behaviour of SpecLate
MaxLateWakes == 2

\* ---------------------------------------------------------------------------
\* Data model (providers/mod.rs)
\* ---------------------------------------------------------------------------

None == "<none>"

Identities == {"A", "B"}

\* the text a given identity sends, the action text of the automation and
\* the line typed at the interactive prompt
UserText(p) == "msg from " \o p
ActionText == "automation action"
LocalText == "typed line"

\* ContentBlock
TextBlock(t) == [type |-> "text", text |-> t]
ToolUseBlock(i, n, inp) == [type |-> "tool_use", id |-> i, name |-> n, input |-> inp]
ToolResultBlock(i, c, e) == [type |-> "tool_result", tool_use_id |-> i, content |-> c, is_error |-> e]

\* Message; the field turn is not in the code: it names the turn (an
\* identity, "automation" or "local") in which the message was produced
Msg(r, c, t) == [role |-> r, content |-> c, turn |-> t]

\* Message::user
MessageUser(text, t) == Msg("user", <<TextBlock(text)>>, t)

\* Message::tool_results
MessageToolResults(results, t) == Msg("user", results, t)

RECURSIVE SelectBlocks(_, _)
SelectBlocks(content, ty) ==
    IF content = <<>> THEN <<>>
    ELSE IF Head(content).type = ty
         THEN <<Head(content)>> \o SelectBlocks(Tail(content), ty)
         ELSE SelectBlocks(Tail(content), ty)

RECURSIVE JoinLines(_)
JoinLines(blocks) ==
    IF blocks = <<>> THEN ""
    ELSE IF Len(blocks) = 1 THEN blocks[1].text
    ELSE blocks[1].text \o "\n" \o JoinLines(Tail(blocks))

\* CompletionResult::text and the same expression at the end of chat
TextOf(content) == JoinLines(SelectBlocks(content, "text"))

RECURSIVE Reverse(_)
Reverse(s) == IF s = <<>> THEN <<>> ELSE Append(Reverse(Tail(s)), Head(s))

\* mutant: the ToolUse blocks are taken last to first
tool_uses_Reversed(content) == Reverse(SelectBlocks(content, "tool_use"))

\* CompletionResult::tool_uses
tool_uses(content) == SelectBlocks(content, "tool_use")

\* the ids of the blocks of one type, in order
IdsOf(content, ty) ==
    LET bs == SelectBlocks(content, ty)
    IN  [i \in 1..Len(bs) |-> IF ty = "tool_use" THEN bs[i].id ELSE bs[i].tool_use_id]

\* ---------------------------------------------------------------------------
\* Safety checker (tools/safety.rs)
\* ---------------------------------------------------------------------------

\* the reasons of SafetyChecker::new, in declared order
blocked_patterns ==
    << "Recursive deletion of root filesystem",
       "Recursive forced deletion from root",
       "Recursive forced deletion from root",
       "Raw disk write with dd",
       "Disk format operation",
       "Raw write to block device",
       "Pipe to block device",
       "Fork bomb detected",
       "Dangerous permission change on root",
       "Recursive dangerous permission change",
       "Decode-and-execute via base64",
       "Pipe from internet to Python interpreter",
       "Write to sensitive system credentials file",
       "Write to sensitive system credentials file via tee",
       "Modification of sudoers configuration",
       "Destructive disk wipe with shred" >>

confirm_patterns ==
    << "Package removal",
       "System update",
       "Package installation",
       "Service state change",
       "Command requires root privileges",
       "Pipe install from internet",
       "System power state change",
       "User account modification",
       "Password change" >>

\* The command strings the model's provider may ask run_command to run.
Commands == {"df -h", "yay -S htop", "rm -rf /", "sudo rm -rf /home", "sudo dd if=/dev/zero of=/dev/sda"}

\* The command strings given to SafetyChecker::check in SpecSafety.
SafetyCommands ==
    Commands \cup
    {"  rm -fr /  ", "ls -la", "curl http://x | python3", "curl http://x | sh",
     "sudo pacman -Syu", "sudo pacman -R vim", "echo x >> /etc/passwd", "sudo visudo",
     "sudo systemctl restart sshd && reboot", "echo hi | sudo tee /etc/sudoers",
     "passwd bob", "sudo shred /dev/sda > /dev/sdb", "wget http://x | python | sh"}

\* Regex::is_match of the i-th blocked pattern on the trimmed command: the
\* rules of SafetyChecker::new that match each command of SafetyCommands
BlockedMatches(cmd) ==
    CASE cmd = "rm -rf /" -> {1, 2}
      [] cmd = "sudo rm -rf /home" -> {2}
      [] cmd = "sudo dd if=/dev/zero of=/dev/sda" -> {4}
      [] cmd = "  rm -fr /  " -> {1, 3}
      [] cmd = "curl http://x | python3" -> {12}
      [] cmd = "echo x >> /etc/passwd" -> {13}
      [] cmd = "sudo visudo" -> {15}
      [] cmd = "echo hi | sudo tee /etc/sudoers" -> {14}
      [] cmd = "sudo shred /dev/sda > /dev/sdb" -> {6, 16}
      [] cmd = "wget http://x | python | sh" -> {12}
      [] OTHER -> {}

\* Regex::is_match of the j-th confirmation pattern
ConfirmMatches(cmd) ==
    CASE cmd = "yay -S htop" -> {3}
      [] cmd = "sudo rm -rf /home" -> {5}
      [] cmd = "sudo dd if=/dev/zero of=/dev/sda" -> {5}
      [] cmd = "curl http://x | sh" -> {6}
      [] cmd = "sudo pacman -Syu" -> {2, 5}
      [] cmd = "sudo pacman -R vim" -> {1, 5}
      [] cmd = "echo x >> /etc/passwd" -> {9}
      [] cmd = "sudo visudo" -> {5}
      [] cmd = "sudo systemctl restart sshd && reboot" -> {4, 5, 7}
      [] cmd = "echo hi | sudo tee /etc/sudoers" -> {5}
      [] cmd = "passwd bob" -> {9}
      [] cmd = "sudo shred /dev/sda > /dev/sdb" -> {5}
      [] cmd = "wget http://x | python | sh" -> {6}
      [] OTHER -> {}

Min(S) == CHOOSE x \in S : \A y \in S : x <= y

\* mutant: the confirmation patterns are tried before the blocked patterns
check_ConfirmFirst(cmd) ==
    IF ConfirmMatches(cmd) # {}
    THEN [kind |-> "RequiresConfirmation", reason |-> confirm_patterns[Min(ConfirmMatches(cmd))]]
    ELSE IF BlockedMatches(cmd) # {}
    THEN [kind |-> "Blocked", reason |-> blocked_patterns[Min(BlockedMatches(cmd))]]
    ELSE [kind |-> "Safe", reason |-> ""]

\* SafetyChecker::check: the blocked patterns first, then the confirmation
\* patterns, each in declared order, the first match wins
check(cmd) ==
    IF BlockedMatches(cmd) # {}
    THEN [kind |-> "Blocked", reason |-> blocked_patterns[Min(BlockedMatches(cmd))]]
    ELSE IF ConfirmMatches(cmd) # {}
    THEN [kind |-> "RequiresConfirmation", reason |-> confirm_patterns[Min(ConfirmMatches(cmd))]]
    ELSE [kind |-> "Safe", reason |-> ""]

\* ---------------------------------------------------------------------------
\* Tool registry (tools/mod.rs, tools/system.rs, tools/packages.rs,
\* tools/services.rs)
\* ---------------------------------------------------------------------------

\* ToolRegistry::default_tools
RegisteredTools ==
    {"check_disk", "check_memory", "check_processes", "read_logs", "check_network",
     "list_packages", "install_package", "remove_package", "update_system",
     "manage_service", "run_command"}

\* SystemTool::permission_level of each registered tool
permission_level(name) ==
    IF name \in {"install_package", "remove_package", "update_system",
                 "manage_service", "run_command"}
    THEN "RequiresConfirmation"
    ELSE "Safe"

\* a tool input: the JSON object, of which only the field `command` is read
\* by the orchestrator
InputEmpty == [command |-> None]
InputCommand(cmd) == [command |-> cmd]

\* What the subprocess of a tool does: it succeeds, or fails (non-zero exit,
\* timeout, I/O error).
ToolOutcomes == {"ok", "failed"}

\* SystemTool::execute: [ok, text, spawned]; spawned is the command string
\* handed to `sh -c` by RunCommandTool::execute, None for the other tools and
\* for a run_command input without a command string
tool_execute(name, input, outcome) ==
    IF name = "run_command" /\ input.command = None
    THEN [ok |-> FALSE, text |-> "Invalid tool input: Missing 'command' field", spawned |-> None]
    ELSE [ok |-> outcome = "ok",
          text |-> IF outcome = "ok" THEN "output of " \o name ELSE "Command failed",
          spawned |-> IF name = "run_command" THEN input.command ELSE None]

\* ---------------------------------------------------------------------------
\* Confirmation prompt (agent.rs)
\* ---------------------------------------------------------------------------

\* the lines read from stdin at the prompt; ReadError is a failed read_line
ReadError == "<read error>"
Answers == {"y", "YES", " Yes ", "n", "yes please", "", ReadError}

\* str::trim followed by str::to_lowercase on the lines of Answers
TrimLower(line) ==
    CASE line = "YES" -> "yes"
      [] line = " Yes " -> "yes"
      [] OTHER -> line

\* mutant: an empty line (Enter alone) counts as yes
prompt_confirmation_DefaultYes(autoConfirm, answer) ==
    IF autoConfirm THEN TRUE
    ELSE IF answer = ReadError THEN FALSE
    ELSE TrimLower(answer) \in {"y", "yes", ""}

\* Agent::prompt_confirmation
prompt_confirmation(autoConfirm, answer) ==
    IF autoConfirm THEN TRUE
    ELSE IF answer = ReadError THEN FALSE
    ELSE TrimLower(answer) = "y" \/ TrimLower(answer) = "yes"

\* strings::blocked and strings::cancelled (English)
StrBlocked == "Blocked by safety policy."
StrCancelled == "Cancelled."

\* ---------------------------------------------------------------------------
\* Tool dispatch (agent.rs, execute_tool)
\* ---------------------------------------------------------------------------

\* mutant: a Blocked classification is prompted for like a
\* RequiresConfirmation one
gate_BlockedIsPrompted(name, input, autoConfirm, answer) ==
    LET command_str == IF name = "run_command" THEN input.command ELSE None
        res == IF command_str # None THEN check(command_str)
               ELSE [kind |-> None, reason |-> ""]
        base == [decision |-> "run", checked |-> command_str, class |-> res.kind,
                 asked |-> FALSE, prompted |-> FALSE, reason |-> ""]
        asks == command_str = None \/ res.kind \in {"Blocked", "RequiresConfirmation"}
    IN  IF permission_level(name) = "Safe" \/ ~asks THEN base
        ELSE [base EXCEPT !.asked = TRUE, !.prompted = ~autoConfirm,
                          !.decision = IF prompt_confirmation(autoConfirm, answer)
                                       THEN "run" ELSE "cancelled"]

\* mutant: the answer to the prompt is read and not used
gate_AnswerIgnored(name, input, autoConfirm, answer) ==
    LET command_str == IF name = "run_command" THEN input.command ELSE None
        res == IF command_str # None THEN check(command_str)
               ELSE [kind |-> None, reason |-> ""]
        base == [decision |-> "run", checked |-> command_str, class |-> res.kind,
                 asked |-> FALSE, prompted |-> FALSE, reason |-> ""]
        asks == command_str = None \/ res.kind = "RequiresConfirmation"
    IN  IF permission_level(name) = "Safe" THEN base
        ELSE IF res.kind = "Blocked"
        THEN [base EXCEPT !.decision = "blocked", !.reason = res.reason]
        ELSE IF asks THEN [base EXCEPT !.asked = TRUE, !.prompted = ~autoConfirm]
        ELSE base

\* The permission gate of execute_tool for a registered tool: the decision
\* ("run", "blocked", "cancelled") with what was done to reach it:
\*   checked  the command string given to SafetyChecker::check, or None
\*   class    the SafetyResult of that check, or None
\*   asked    whether prompt_confirmation was called
\*   prompted whether a line was read from stdin for it
\*   reason   the reason of a Blocked classification
gate(name, input, autoConfirm, answer) ==
    LET command_str == IF name = "run_command" THEN input.command ELSE None
        level == permission_level(name)
        res == IF command_str # None THEN check(command_str)
               ELSE [kind |-> None, reason |-> ""]
        base == [decision |-> "run", checked |-> None, class |-> None,
                 asked |-> FALSE, prompted |-> FALSE, reason |-> ""]
    IN  CASE level = "Safe" -> base
          [] level = "RequiresConfirmation" /\ command_str # None ->
               LET b == [base EXCEPT !.checked = command_str, !.class = res.kind]
               IN  CASE res.kind = "Blocked" ->
                          [b EXCEPT !.decision = "blocked", !.reason = res.reason]
                     [] res.kind = "RequiresConfirmation" ->
                          [b EXCEPT !.asked = TRUE, !.prompted = ~autoConfirm,
                                    !.decision = IF prompt_confirmation(autoConfirm, answer)
                                                 THEN "run" ELSE "cancelled"]
                     [] OTHER -> b
          [] level = "RequiresConfirmation" /\ command_str = None ->
               [base EXCEPT !.asked = TRUE, !.prompted = ~autoConfirm,
                            !.decision = IF prompt_confirmation(autoConfirm, answer)
                                         THEN "run" ELSE "cancelled"]
          [] OTHER -> [base EXCEPT !.decision = "blocked"]

\* no call of Memory::log_command
NoAudit == [status |-> None, command |-> None]

\* Agent::execute_tool: the ToolResult block, the audit record handed to
\* Memory::log_command (NoAudit when log_command is not called) and what
\* happened on the way (result is the Ok or Err of tool.execute, None when it
\* was not called)
execute_tool(tool_use_id, name, input, autoConfirm, answer, outcome) ==
    LET command_str == IF name = "run_command" THEN input.command ELSE None
        log_cmd == IF command_str # None THEN command_str ELSE name
        g == gate(name, input, autoConfirm, answer)
        x == tool_execute(name, input, outcome)
        info == [id |-> tool_use_id, name |-> name, known |-> TRUE,
                 decision |-> g.decision, checked |-> g.checked, class |-> g.class,
                 asked |-> g.asked, prompted |-> g.prompted,
                 answer |-> IF g.prompted THEN answer ELSE None,
                 executed |-> FALSE, spawned |-> None, result |-> None]
    IN  IF name \notin RegisteredTools
        THEN [block |-> ToolResultBlock(tool_use_id, "Unknown tool: " \o name, TRUE),
              audit |-> NoAudit,
              info |-> [info EXCEPT !.known = FALSE, !.decision = "unknown",
                                    !.checked = None, !.class = None, !.asked = FALSE,
                                    !.prompted = FALSE, !.answer = None]]
        ELSE CASE g.decision = "blocked" ->
                    [block |-> ToolResultBlock(tool_use_id,
                                   IF g.reason # "" THEN StrBlocked \o ": " \o g.reason
                                   ELSE StrBlocked, TRUE),
                     audit |-> [status |-> "BLOCKED", command |-> log_cmd],
                     info |-> info]
               [] g.decision = "cancelled" ->
                    [block |-> ToolResultBlock(tool_use_id, StrCancelled, FALSE),
                     audit |-> [status |-> "CANCELLED", command |-> log_cmd],
                     info |-> info]
               [] OTHER ->
                    IF x.ok
                    THEN [block |-> ToolResultBlock(tool_use_id, x.text, FALSE),
                          audit |-> [status |-> IF permission_level(name) = "Safe"
                                                THEN "SAFE" ELSE "CONFIRMED",
                                     command |-> log_cmd],
                          info |-> [info EXCEPT !.executed = TRUE, !.spawned = x.spawned,
                                                !.result = "Ok"]]
                    ELSE [block |-> ToolResultBlock(tool_use_id, "Error: " \o x.text, TRUE),
                          audit |-> [status |-> "FAILED", command |-> log_cmd],
                          info |-> [info EXCEPT !.executed = TRUE, !.spawned = x.spawned,
                                                !.result = "Err"]]

\* ---------------------------------------------------------------------------
\* Memory files (memory.rs)
\* ---------------------------------------------------------------------------

\* The state of the file system during one call: "ok", "readonly" (every
\* write fails), "unreadable" (every read fails with an error other than
\* NotFound).
FsStates == {"ok", "readonly", "unreadable"}

\* Memory::append_today on the lines of today's file: the header on the first
\* write; the file is unchanged when the read or the write fails
append_today(file, content, fsState) ==
    IF fsState # "ok" THEN file
    ELSE IF file = <<>> THEN <<"# today", content>>
    ELSE Append(file, content)

\* Memory::log_command on the records of commands.log
log_command(file, record, fsState) ==
    IF fsState # "ok" \/ record = NoAudit THEN file
    ELSE Append(file, record)

\* Memory::build_context: the sections of the memory files that are not
\* empty; of these the model has today's file alone
build_context(file) ==
    IF file = <<>> THEN <<>> ELSE <<"## Today's Session">> \o file

\* Agent::build_system_prompt: the fixed policy text followed by the memory
\* context
build_system_prompt(file) == [policy |-> "You are Blunux AI Agent", memory_ctx |-> build_context(file)]

\* ---------------------------------------------------------------------------
\* Cron helper (automations.rs)
\* ---------------------------------------------------------------------------

\* A &str of a schedule is the sequence of its characters.
Digits == <<"0", "1", "2", "3", "4", "5", "6", "7", "8", "9">>

IsDigit(ch) == \E d \in 1..10 : Digits[d] = ch

DigitVal(ch) == (CHOOSE d \in 1..10 : Digits[d] = ch) - 1

\* A u32 is kept as hi * 100000 + lo, and u32::MAX is 42949 * 100000 + 67295
U32(hi, lo) == [hi |-> hi, lo |-> lo]

\* the checked `acc * 10 + digit` of the digits of a u32, from the left: the
\* number, or <<>> at a character that is not a digit or at an overflow
RECURSIVE parse_digits(_, _)
parse_digits(chars, acc) ==
    IF chars = <<>> THEN <<acc>>
    ELSE IF ~IsDigit(Head(chars)) THEN <<>>
    ELSE LET low == acc.lo * 10 + DigitVal(Head(chars))
             hi == acc.hi * 10 + (low \div 100000)
             lo == low % 100000
         IN  IF hi > 42949 \/ (hi = 42949 /\ lo > 67295) THEN <<>>
             ELSE parse_digits(Tail(chars), U32(hi, lo))

\* str::parse::<u32>: an optional "+" and at least one digit; Ok is <<n>>,
\* Err is <<>>
parse_u32(chars) ==
    LET digits == IF chars # <<>> /\ Head(chars) = "+" THEN Tail(chars) ELSE chars
    IN  IF digits = <<>> THEN <<>> ELSE parse_digits(digits, U32(0, 0))

\* str::strip_prefix("*/"): Some(rest) or None
strip_prefix(field) ==
    IF Len(field) >= 2 /\ field[1] = "*" /\ field[2] = "/"
    THEN <<SubSeq(field, 3, Len(field))>>
    ELSE <<>>

\* n == value and value % n == 0 for a u32 n and a value below 100000
U32Eq(n, value) == n.hi = 0 /\ n.lo = value
U32Divides(n, value) == IF n.hi > 0 THEN value = 0 ELSE value % n.lo = 0
U32Positive(n) == n.hi > 0 \/ n.lo > 0

\* mutant: the step of `*/N` is not required to be positive, and a step of
\* zero matches
field_matches_ZeroStep(field, value) ==
    IF field = <<"*">> THEN TRUE
    ELSE IF strip_prefix(field) # <<>>
    THEN LET n == parse_u32(strip_prefix(field)[1])
         IN  n # <<>> /\ (~U32Positive(n[1]) \/ U32Divides(n[1], value))
    ELSE LET n == parse_u32(field)
         IN  n # <<>> /\ U32Eq(n[1], value)

\* field_matches
field_matches(field, value) ==
    IF field = <<"*">> THEN TRUE
    ELSE IF strip_prefix(field) # <<>>
    THEN LET n == parse_u32(strip_prefix(field)[1])
         IN  IF n # <<>> THEN U32Positive(n[1]) /\ U32Divides(n[1], value)
             ELSE FALSE
    ELSE LET n == parse_u32(field)
         IN  IF n # <<>> THEN U32Eq(n[1], value)
             ELSE FALSE

\* char::is_whitespace on the characters of these schedules
IsSpace(ch) == ch \in {" ", "\t"}

\* str::split_whitespace: the maximal runs of characters that are not
\* whitespace; `word` is the run being read
RECURSIVE split_from(_, _)
split_from(chars, word) ==
    IF chars = <<>> THEN (IF word = <<>> THEN <<>> ELSE <<word>>)
    ELSE IF IsSpace(Head(chars))
    THEN (IF word = <<>> THEN <<>> ELSE <<word>>) \o split_from(Tail(chars), <<>>)
    ELSE split_from(Tail(chars), Append(word, Head(chars)))

split_whitespace(chars) == split_from(chars, <<>>)

\* a local time: what cron_matches and run_scheduler read of Local::now()
\* (weekday counted from Sunday = 0), and the date it belongs to
Time(month, day, weekday, hour, minute) ==
    [month |-> month, day |-> day, weekday |-> weekday, hour |-> hour, minute |-> minute]

\* mutant: the first field is matched against the hour and the second
\* against the minute
cron_matches_HourFirst(schedule, now) ==
    LET fields == split_whitespace(schedule)
        values == <<now.hour, now.minute, now.day, now.month, now.weekday>>
    IN  IF Len(fields) # 5 THEN FALSE
        ELSE \A i \in 1..5 : field_matches(fields[i], values[i])

\* cron_matches
cron_matches(schedule, now) ==
    LET fields == split_whitespace(schedule)
        values == <<now.minute, now.hour, now.day, now.month, now.weekday>>
    IN  IF Len(fields) # 5 THEN FALSE
        ELSE \A i \in 1..5 : field_matches(fields[i], values[i])

\* ---------------------------------------------------------------------------
\* Provider (providers/mod.rs, Provider::complete)
\* ---------------------------------------------------------------------------

\* a CompletionResult, or the failure of the call
Completion(content, stop) == [ok |-> TRUE, content |-> content, stop_reason |-> stop]
ProviderErr == [ok |-> FALSE, content |-> <<>>, stop_reason |-> None]

UseDisk(id) == ToolUseBlock(id, "check_disk", InputEmpty)

EndTurnText == Completion(<<TextBlock("reply")>>, "end_turn")
\* a completion cut at the token limit after a ToolUse block
MaxTokensCut == Completion(<<TextBlock("partial"), UseDisk("t1")>>, "max_tokens")
ToolUseDisk == Completion(<<TextBlock("checking"), UseDisk("t1")>>, "tool_use")
\* two text blocks around a ToolUse block, and no text block at all
TwoTexts == Completion(<<TextBlock("first"), UseDisk("t9"), TextBlock("second")>>, "max_tokens")
NoText == Completion(<<>>, "end_turn")
\* stop reason tool_use without any ToolUse block
ToolUseNone == Completion(<<TextBlock("thinking")>>, "tool_use")

\* the completions of the provider in Spec
SessionCompletions == {EndTurnText, MaxTokensCut, ToolUseDisk, ProviderErr}

\* the completions of the provider in SpecLoop
LoopCompletions == {EndTurnText, ToolUseDisk, ProviderErr}

\* the tool uses of the provider in SpecTools
ToolRequests ==
    {[name |-> "check_disk", input |-> InputEmpty],
     [name |-> "install_package", input |-> InputEmpty],
     [name |-> "run_command", input |-> InputEmpty],
     [name |-> "no_such_tool", input |-> InputEmpty]}
    \cup {[name |-> "run_command", input |-> InputCommand(c)] : c \in Commands}

ToolsCompletions ==
    {EndTurnText, ProviderErr, ToolUseNone}
    \cup {Completion(<<ToolUseBlock("t1", r.name, r.input)>>, "tool_use") : r \in ToolRequests}
    \cup {Completion(<<UseDisk("t1"), ToolUseBlock("t2", "run_command", InputCommand(c))>>,
                     "tool_use") : c \in {"yay -S htop", "rm -rf /"}}

\* ---------------------------------------------------------------------------
\* State
\* ---------------------------------------------------------------------------

VARIABLES
    \* Agent
    conversation,        \* Agent.conversation, the active slot
    user_conversations,  \* Agent.user_conversations: identity -> conversation
    auto_confirm,        \* Agent.auto_confirm
    \* Memory files
    daily,               \* memory/daily/<today>.md, its lines
    audit,               \* logs/commands.log, its records
    \* the call in progress
    pc,                  \* "idle", "provider" (in provider.complete), "tool" (in execute_tool)
    kind,                \* the operation in progress or, when idle, the last one
    phone,               \* its identity (chat_as_user, reset_user_conversation)
    saved,               \* `conv` of chat_as_user after the swap, `saved` of run_automation
    system_prompt,       \* chat: system_prompt
    iterations,          \* chat: iterations
    pending,             \* process_tool_calls: the tool uses not yet executed
    tool_results,        \* process_tool_calls: tool_results
    ret,                 \* what the last call returned
    fs,                  \* the state of the file system during the call
    \* history
    turns,               \* calls started so far
    ncalls,              \* provider.complete calls of the current call
    pre,                 \* active slot and stored conversations when the call started
    inner,               \* the conversation as the inner chat left it
    contacted,           \* identities with a chat_as_user since their last reset
    last                 \* what the last execute_tool did

VARIABLES
    \* SafetyChecker
    safety,              \* the SafetyChecker: its two rule tables
    checks               \* the calls of SafetyChecker::check so far: command and result

VARIABLES
    \* Daemon
    lock,                \* the holder of the Mutex<Agent>: a connection, the scheduler, or None
    qlock,               \* the holder of the Mutex of the NotifyQueue, likewise
    notify_queue,        \* the NotifyQueue
    conns,               \* the handle_connection task of each connection
    nreads,              \* lines read so far, over all connections
    npushes,             \* automation results pushed so far by the scheduler
    polled               \* the notifications drained so far by the polls, in the order of the drains

VARIABLES
    \* Scheduler
    sched,               \* the run_scheduler task
    clock,               \* the local time, as an index of Times
    store,               \* <config_dir>/automations.toml
    nedits,              \* edits of that file so far
    matched              \* the calls of field_matches (or cron_matches) so far, with their results

agent_vars == <<conversation, user_conversations, auto_confirm, daily, audit, pc, kind, phone,
                saved, system_prompt, iterations, pending, tool_results, ret, fs, turns,
                ncalls, pre, inner, contacted, last>>

safety_vars == <<safety, checks>>

daemon_vars == <<lock, qlock, notify_queue, conns, nreads, npushes, polled>>

sched_vars == <<sched, clock, store, nedits, matched>>

vars == <<agent_vars, safety_vars, daemon_vars, sched_vars>>

NoRet == [ok |-> TRUE, value |-> None]
NoPrompt == [policy |-> None, memory_ctx |-> <<>>]
\* HashMap::new
EmptyMap == [q \in {} |-> <<>>]
NoPre == [conversation |-> <<>>, user_conversations |-> EmptyMap]
NoLast == [id |-> None, name |-> None, known |-> FALSE, decision |-> None,
           checked |-> None, class |-> None, asked |-> FALSE, prompted |-> FALSE,
           answer |-> None, executed |-> FALSE, spawned |-> None, result |-> None,
           block |-> ToolResultBlock(None, None, FALSE), audit |-> NoAudit]

\* the turn a message of the call in progress belongs to
Owner(k, p) ==
    CASE k = "chat_as_user" -> p
      [] k = "run_automation" -> "automation"
      [] OTHER -> "local"

\* HashMap::remove and HashMap::insert on user_conversations
MapRemove(m, p) == [q \in DOMAIN m \ {p} |-> m[q]]
MapInsert(m, p, c) == [q \in DOMAIN m \cup {p} |-> IF q = p THEN c ELSE m[q]]

\* Agent::new / Agent::new_daemon
InitAgent(daemon) ==
    /\ conversation = <<>>
    /\ user_conversations = EmptyMap
    /\ auto_confirm = daemon
    /\ daily = <<>>
    /\ audit = <<>>
    /\ pc = "idle"
    /\ kind = None
    /\ phone = None
    /\ saved = <<>>
    /\ system_prompt = NoPrompt
    /\ iterations = 0
    /\ pending = <<>>
    /\ tool_results = <<>>
    /\ ret = NoRet
    /\ fs = "ok"
    /\ turns = 0
    /\ ncalls = 0
    /\ pre = NoPre
    /\ inner = <<>>
    /\ contacted = {}
    /\ last = NoLast

\* SafetyChecker::new
SafetyCheckerNew ==
    [blocked_patterns |-> blocked_patterns, confirm_patterns |-> confirm_patterns]

InitSafety ==
    /\ safety = SafetyCheckerNew
    /\ checks = <<>>

\* ---------------------------------------------------------------------------
\* The call: prologue, return, loop head
\* ---------------------------------------------------------------------------

\* mutant: chat_as_user and run_automation run the inner chat on the active
\* slot as it is
start_conversation_NoSwap(k, p, conv, stored) == conv

\* The conversation the inner chat works on: the active slot for chat, the
\* stored conversation of the identity (or an empty one) for chat_as_user
\* after the swap, an empty one for run_automation after mem::take.
start_conversation(k, p, conv, stored) ==
    CASE k = "chat_as_user" -> IF p \in DOMAIN stored THEN stored[p] ELSE <<>>
      [] k = "run_automation" -> <<>>
      [] OTHER -> conv

\* mutant: the wrappers leave the conversation of the inner chat in the
\* active slot
restored_conversation_KeepsInner(k, innerConv, sav) == innerConv

\* The active slot after the call: chat leaves its conversation there,
\* chat_as_user swaps back, run_automation restores `saved`.
restored_conversation(k, innerConv, sav) ==
    IF k = "chat" THEN innerConv ELSE sav

\* mutant: chat_as_user returns the error of the inner chat with `?`, before
\* the conversation is stored again
restored_user_conversations_OkOnly(k, p, innerConv, stored, result) ==
    IF k = "chat_as_user" /\ result.ok THEN MapInsert(stored, p, innerConv) ELSE stored

\* The stored conversations after the call: chat_as_user inserts the
\* conversation of the inner chat under the identity, whatever the result.
restored_user_conversations(k, p, innerConv, stored, result) ==
    IF k = "chat_as_user" THEN MapInsert(stored, p, innerConv) ELSE stored

\* mutant: the cap is tested one iteration too late
CapExhausted_OffByOne(n) == n > MAX_TOOL_LOOP_ITERATIONS + 1

\* the test of the loop head of chat, after iterations += 1
CapExhausted(n) == n > MAX_TOOL_LOOP_ITERATIONS

\* The inner chat returns `result` with its conversation `conv`; the wrapper
\* runs its epilogue and the call is over.
Return(conv, result) ==
    /\ conversation' = restored_conversation(kind, conv, saved)
    /\ user_conversations' =
           restored_user_conversations(kind, phone, conv, user_conversations, result)
    /\ inner' = conv
    /\ ret' = result
    /\ pc' = "idle"
    /\ saved' = <<>>
    /\ system_prompt' = NoPrompt
    /\ pending' = <<>>
    /\ tool_results' = <<>>

\* The head of the loop of chat with the conversation `conv`: one more
\* iteration, or the end of the turn with the last text.
LoopHead(conv) ==
    /\ iterations' = iterations + 1
    /\ IF CapExhausted(iterations + 1)
       THEN Return(conv, [ok |-> TRUE,
                          value |-> IF conv = <<>> THEN "" ELSE TextOf(conv[Len(conv)].content)])
       ELSE /\ conversation' = conv
            /\ pc' = "provider"
            /\ pending' = <<>>
            /\ tool_results' = <<>>
            /\ UNCHANGED <<user_conversations, inner, ret, saved, system_prompt>>

\* A call of entry point k for identity p with the text `text`, up to its
\* first provider.complete or to the failure of build_system_prompt.
Begin(k, p, text, fsState) ==
    LET conv0 == start_conversation(k, p, conversation, user_conversations)
        conv1 == Append(conv0, MessageUser(text, Owner(k, p)))
        stored1 == IF k = "chat_as_user" THEN MapRemove(user_conversations, p)
                   ELSE user_conversations
        sav == IF k = "chat" THEN <<>> ELSE conversation
        daily1 == append_today(daily, text, fsState)
    IN  /\ pc = "idle"
        /\ kind' = k
        /\ phone' = p
        /\ fs' = fsState
        /\ turns' = turns + 1
        /\ ncalls' = 0
        /\ pre' = [conversation |-> conversation, user_conversations |-> user_conversations]
        /\ contacted' = IF k = "chat_as_user" THEN contacted \cup {p} ELSE contacted
        /\ daily' = daily1
        /\ last' = NoLast
        /\ UNCHANGED <<auto_confirm, audit>>
        /\ IF fsState = "unreadable"
           THEN \* build_system_prompt()? returns the memory error
                /\ conversation' = restored_conversation(k, conv1, sav)
                /\ user_conversations' =
                       restored_user_conversations(k, p, conv1, stored1,
                                                   [ok |-> FALSE, value |-> "Memory error"])
                /\ inner' = conv1
                /\ ret' = [ok |-> FALSE, value |-> "Memory error"]
                /\ iterations' = 0
                /\ UNCHANGED <<pc, saved, system_prompt, pending, tool_results>>
           ELSE /\ conversation' = conv1
                /\ user_conversations' = stored1
                /\ saved' = sav
                /\ system_prompt' = build_system_prompt(daily1)
                /\ iterations' = 1
                /\ pc' = "provider"
                /\ UNCHANGED <<inner, ret, pending, tool_results>>

\* ---------------------------------------------------------------------------
\* Operations
\* ---------------------------------------------------------------------------

\* Agent::chat on the active slot (the interactive session)
Chat(text, fsState) == Begin("chat", None, text, fsState)

\* Agent::chat_as_user
ChatAsUser(p, text, fsState) == Begin("chat_as_user", p, text, fsState)

\* Agent::run_automation
RunAutomation(action, fsState) == Begin("run_automation", None, action, fsState)

\* Agent::reset_conversation
ResetConversation ==
    /\ pc = "idle"
    /\ conversation # <<>>
    /\ conversation' = <<>>
    /\ kind' = "reset_conversation"
    /\ phone' = None
    /\ UNCHANGED <<user_conversations, auto_confirm, daily, audit, pc, saved,
                   system_prompt, iterations, pending, tool_results, ret, fs, turns,
                   ncalls, pre, inner, contacted, last>>

\* mutant: the reset leaves the stored conversation where it is
ResetUserConversation_Keeps(p) ==
    /\ pc = "idle"
    /\ contacted' = contacted \ {p}
    /\ kind' = "reset_user_conversation"
    /\ phone' = p
    /\ UNCHANGED <<conversation, user_conversations, auto_confirm, daily, audit, pc, saved,
                   system_prompt, iterations, pending, tool_results, ret, fs, turns,
                   ncalls, pre, inner, last>>

\* Agent::reset_user_conversation
ResetUserConversation(p) ==
    /\ pc = "idle"
    /\ user_conversations' = MapRemove(user_conversations, p)
    /\ contacted' = contacted \ {p}
    /\ kind' = "reset_user_conversation"
    /\ phone' = p
    /\ UNCHANGED <<conversation, auto_confirm, daily, audit, pc, saved,
                   system_prompt, iterations, pending, tool_results, ret, fs, turns,
                   ncalls, pre, inner, last>>

\* mutant: the reply is the text accumulated over the round-trips of the call
ProviderReturn_Accumulates(c) ==
    LET conv1 == Append(conversation, Msg("assistant", c.content, Owner(kind, phone)))
        uses == tool_uses(c.content)
        base == start_conversation(kind, phone, pre.conversation, pre.user_conversations)
        mine == SelectSeq(SubSeq(conv1, Len(base) + 1, Len(conv1)),
                          LAMBDA m : m.role = "assistant")
        texts == [i \in 1..Len(mine) |-> TextBlock(TextOf(mine[i].content))]
    IN  /\ pc = "provider"
        /\ ncalls' = ncalls + 1
        /\ UNCHANGED <<auto_confirm, audit, kind, phone, fs, turns, pre, contacted, last>>
        /\ IF ~c.ok
           THEN /\ Return(conversation, [ok |-> FALSE, value |-> "Provider error"])
                /\ UNCHANGED <<daily, iterations>>
           ELSE IF c.stop_reason \in {"end_turn", "max_tokens"}
           THEN /\ daily' = append_today(daily, "AI: " \o TextOf(texts), fs)
                /\ Return(conv1, [ok |-> TRUE, value |-> TextOf(texts)])
                /\ UNCHANGED iterations
           ELSE IF uses = <<>>
           THEN /\ LoopHead(conv1)
                /\ UNCHANGED daily
           ELSE /\ conversation' = conv1
                /\ pending' = uses
                /\ tool_results' = <<>>
                /\ pc' = "tool"
                /\ UNCHANGED <<user_conversations, daily, saved, system_prompt, iterations,
                               ret, inner>>

\* mutant: when provider.complete fails, chat takes back what it has pushed
\* in this call
ProviderReturn_RollsBack(c) ==
    LET conv1 == Append(conversation, Msg("assistant", c.content, Owner(kind, phone)))
        uses == tool_uses(c.content)
    IN  /\ pc = "provider"
        /\ ncalls' = ncalls + 1
        /\ UNCHANGED <<auto_confirm, audit, kind, phone, fs, turns, pre, contacted, last>>
        /\ IF ~c.ok
           THEN /\ Return(start_conversation(kind, phone, pre.conversation,
                                             pre.user_conversations),
                          [ok |-> FALSE, value |-> "Provider error"])
                /\ UNCHANGED <<daily, iterations>>
           ELSE IF c.stop_reason \in {"end_turn", "max_tokens"}
           THEN /\ daily' = append_today(daily, "AI: " \o TextOf(c.content), fs)
                /\ Return(conv1, [ok |-> TRUE, value |-> TextOf(c.content)])
                /\ UNCHANGED iterations
           ELSE IF uses = <<>>
           THEN /\ LoopHead(conv1)
                /\ UNCHANGED daily
           ELSE /\ conversation' = conv1
                /\ pending' = uses
                /\ tool_results' = <<>>
                /\ pc' = "tool"
                /\ UNCHANGED <<user_conversations, daily, saved, system_prompt, iterations,
                               ret, inner>>

\* provider.complete returns c: the rest of the loop body of chat up to the
\* next await (the first tool, the next provider.complete, or the return)
ProviderReturn(c) ==
    LET conv1 == Append(conversation, Msg("assistant", c.content, Owner(kind, phone)))
        uses == tool_uses(c.content)
    IN  /\ pc = "provider"
        /\ ncalls' = ncalls + 1
        /\ UNCHANGED <<auto_confirm, audit, kind, phone, fs, turns, pre, contacted, last>>
        /\ IF ~c.ok
           THEN \* .map_err(AgentError::Provider)?
                /\ Return(conversation, [ok |-> FALSE, value |-> "Provider error"])
                /\ UNCHANGED <<daily, iterations>>
           ELSE IF c.stop_reason \in {"end_turn", "max_tokens"}
           THEN /\ daily' = append_today(daily, "AI: " \o TextOf(c.content), fs)
                /\ Return(conv1, [ok |-> TRUE, value |-> TextOf(c.content)])
                /\ UNCHANGED iterations
           ELSE IF uses = <<>>
           THEN \* process_tool_calls returns an empty list: nothing is pushed
                /\ LoopHead(conv1)
                /\ UNCHANGED daily
           ELSE /\ conversation' = conv1
                /\ pending' = uses
                /\ tool_results' = <<>>
                /\ pc' = "tool"
                /\ UNCHANGED <<user_conversations, daily, saved, system_prompt, iterations,
                               ret, inner>>

\* mutant: the failure of a tool (unknown name, Err of tool.execute) is
\* returned with `?` and ends the turn
ExecuteTool_AbortsOnFailure(answer, outcome) ==
    LET u == Head(pending)
        r == execute_tool(u.id, u.name, u.input, auto_confirm, answer, outcome)
        results1 == Append(tool_results, r.block)
        conv1 == Append(conversation, MessageToolResults(results1, Owner(kind, phone)))
        failed == r.info.decision = "unknown" \/ r.info.result = "Err"
    IN  /\ pc = "tool"
        /\ pending # <<>>
        /\ audit' = log_command(audit, r.audit, fs)
        /\ last' = r.info @@ [block |-> r.block, audit |-> r.audit]
        /\ UNCHANGED <<auto_confirm, daily, kind, phone, fs, turns, ncalls, pre, contacted>>
        /\ IF failed
           THEN /\ Return(conversation, [ok |-> FALSE, value |-> "Tool error"])
                /\ UNCHANGED iterations
           ELSE IF Tail(pending) # <<>>
           THEN /\ pending' = Tail(pending)
                /\ tool_results' = results1
                /\ UNCHANGED <<conversation, user_conversations, pc, saved, system_prompt,
                               iterations, ret, inner>>
           ELSE LoopHead(conv1)

\* One execute_tool of process_tool_calls, for the first pending tool use,
\* with the line typed at the prompt (if it is asked) and the outcome of the
\* tool's subprocess (if it is run); after the last one the results are
\* pushed and the loop goes on.
ExecuteTool(answer, outcome) ==
    LET u == Head(pending)
        r == execute_tool(u.id, u.name, u.input, auto_confirm, answer, outcome)
        results1 == Append(tool_results, r.block)
        conv1 == IF results1 # <<>>
                 THEN Append(conversation, MessageToolResults(results1, Owner(kind, phone)))
                 ELSE conversation
        more == Tail(pending) # <<>>
    IN  /\ pc = "tool"
        /\ pending # <<>>
        /\ audit' = log_command(audit, r.audit, fs)
        /\ UNCHANGED <<auto_confirm, daily, kind, phone, fs, turns, ncalls, pre, contacted>>
        /\ IF more
           THEN /\ pending' = Tail(pending)
                /\ tool_results' = results1
                /\ last' = r.info @@ [block |-> r.block, audit |-> r.audit]
                /\ UNCHANGED <<conversation, user_conversations, pc, saved, system_prompt,
                               iterations, ret, inner>>
           ELSE /\ LoopHead(conv1)
                /\ last' = r.info @@ [block |-> r.block, audit |-> r.audit]


\* ---------------------------------------------------------------------------
\* Daemon (daemon.rs, ipc.rs)
\* ---------------------------------------------------------------------------

\* the connections accepted by run_daemon
Conns == {"c1", "c2"}

\* WhatsAppConfig.allowed_numbers
allowed_numbers == <<"A", "B">>

\* Option<T>: no element for None, one element for Some
Some(x) == <<x>>

\* IpcMessage as handle_connection parses it: msg_type, from, body, action
\* (the fields process_ipc_message reads)
IpcMessage(t, f, b, a) == [ok |-> TRUE, msg_type |-> t, from |-> f, body |-> b, action |-> a]
\* the Err of serde_json::from_str
ParseError == [ok |-> FALSE, msg_type |-> None, from |-> None, body |-> None, action |-> None]

\* The lines a client writes on the socket, by kind; p is the sender
Line(k, p) ==
    CASE k = "message" ->
             "{\"type\":\"message\",\"from\":\"" \o p \o "\",\"body\":\"" \o UserText(p) \o "\"}"
      [] k = "no_from" -> "{\"type\":\"message\",\"body\":\"hello\"}"
      [] k = "no_body" -> "{\"type\":\"message\",\"from\":\"" \o p \o "\"}"
      [] k = "ping" -> "{\"type\":\"action\",\"action\":\"ping\",\"from\":\"" \o p \o "\"}"
      [] k = "reset" -> "{\"type\":\"action\",\"action\":\"reset\",\"from\":\"" \o p \o "\"}"
      [] k = "poll" -> "{\"type\":\"action\",\"action\":\"poll_notifications\"}"
      [] k = "bad_action" ->
             IF p = None THEN "{\"type\":\"action\",\"action\":\"dance\"}"
             ELSE "{\"type\":\"action\",\"action\":\"dance\",\"from\":\"" \o p \o "\"}"
      [] k = "no_action" -> "{\"type\":\"action\"}"
      [] k = "response" ->
             IF p = None THEN "{\"type\":\"response\",\"body\":\"hello\"}"
             ELSE "{\"type\":\"response\",\"from\":\"" \o p \o "\",\"body\":\"hello\"}"
      [] k = "bad_type" -> "{\"type\":\"shout\",\"body\":\"hello\"}"
      [] k = "not_json" -> "not json"
      [] k = "blank" -> "   "
      [] OTHER -> ""

\* str::trim on these lines
trim(line) == IF line = Line("blank", None) THEN "" ELSE line

\* serde_json::from_str::<IpcMessage> on these lines
from_str(line) ==
    IF \E p \in Identities : line = Line("message", p)
    THEN LET p == CHOOSE q \in Identities : line = Line("message", q)
         IN  IpcMessage("message", Some(p), Some(UserText(p)), <<>>)
    ELSE IF line = Line("no_from", None)
    THEN IpcMessage("message", <<>>, Some("hello"), <<>>)
    ELSE IF \E p \in Identities : line = Line("no_body", p)
    THEN IpcMessage("message", Some(CHOOSE q \in Identities : line = Line("no_body", q)),
                    <<>>, <<>>)
    ELSE IF \E p \in Identities : line = Line("ping", p)
    THEN IpcMessage("action", Some(CHOOSE q \in Identities : line = Line("ping", q)),
                    <<>>, Some("ping"))
    ELSE IF \E p \in Identities : line = Line("reset", p)
    THEN IpcMessage("action", Some(CHOOSE q \in Identities : line = Line("reset", q)),
                    <<>>, Some("reset"))
    ELSE IF line = Line("poll", None)
    THEN IpcMessage("action", <<>>, <<>>, Some("poll_notifications"))
    ELSE IF line = Line("bad_action", None)
    THEN IpcMessage("action", <<>>, <<>>, Some("dance"))
    ELSE IF \E p \in Identities : line = Line("bad_action", p)
    THEN IpcMessage("action", Some(CHOOSE q \in Identities : line = Line("bad_action", q)),
                    <<>>, Some("dance"))
    ELSE IF line = Line("no_action", None)
    THEN IpcMessage("action", <<>>, <<>>, <<>>)
    ELSE IF line = Line("response", None)
    THEN IpcMessage("response", <<>>, Some("hello"), <<>>)
    ELSE IF \E p \in Identities : line = Line("response", p)
    THEN IpcMessage("response", Some(CHOOSE q \in Identities : line = Line("response", q)),
                    Some("hello"), <<>>)
    ELSE ParseError

\* the IpcMessage of type response the daemon writes: to, body, notifications
\* (the timestamp is left out)
Response(to, body, notifications) ==
    [msg_type |-> "response", to |-> to, body |-> body, notifications |-> notifications]

\* error_response
error_response(to, reason) == Response(to, Some("Error: " \o reason), <<>>)

\* no response yet
NoResponse == [msg_type |-> None, to |-> <<>>, body |-> <<>>, notifications |-> <<>>]

\* the number of items a poll takes from a queue of n: queue.len().min(10)
take(q) == IF Len(q) < POLL_BATCH THEN Len(q) ELSE POLL_BATCH

\* mutant: a poll takes the whole queue
drain_All(q) == [batch |-> q, rest |-> <<>>]

\* queue.drain(..take).collect(): the batch and what is left in the queue
drain(q) == [batch |-> SubSeq(q, 1, take(q)), rest |-> SubSeq(q, take(q) + 1, Len(q))]

\* mutant: the check of `from` comes after the lock, and a message without
\* `from` is answered from the conversation of the empty identity
process_ipc_message_NoFromCheck(msg, queue) ==
    LET same == [wait |-> "none", resp |-> NoResponse, queue |-> queue]
    IN  IF msg.msg_type = "message" /\ msg.body # <<>>
        THEN [same EXCEPT !.wait = "message"]
        ELSE [same EXCEPT !.resp = error_response(msg.from, "Missing 'body' field")]

\* mutant: ping is answered under the agent lock, like a reset
process_ipc_message_PingLocks(msg, queue) ==
    LET same == [wait |-> "none", resp |-> NoResponse, queue |-> queue]
    IN  IF msg.msg_type = "message" THEN [same EXCEPT !.wait = "message"]
        ELSE IF msg.action = Some("poll_notifications") THEN [same EXCEPT !.wait = "queue"]
        ELSE [same EXCEPT !.wait = "reset"]

\* mutant: an action that is not known is answered like ping, and an
\* envelope of type response like an action
process_ipc_message_UnknownIsPing(msg, queue) ==
    LET same == [wait |-> "none", resp |-> NoResponse, queue |-> queue]
    IN  IF msg.msg_type = "message" THEN [same EXCEPT !.wait = "message"]
        ELSE IF msg.action = Some("reset") THEN [same EXCEPT !.wait = "reset"]
        ELSE [same EXCEPT !.resp = Response(msg.from, Some("pong"), <<>>)]

\* process_ipc_message up to its first lock().await, or to its end:
\*   wait   "message" / "reset" when the agent lock is asked for, "queue"
\*          when the lock of the queue is, "none" when the response is there
\*          without a lock
\*   resp   the response, if it is there
\*   queue  the notification queue afterwards
process_ipc_message(msg, queue) ==
    LET same == [wait |-> "none", resp |-> NoResponse, queue |-> queue]
        action == IF msg.action = <<>> THEN "" ELSE msg.action[1]
    IN  CASE msg.msg_type = "message" ->
               IF msg.from = <<>>
               THEN [same EXCEPT !.resp = error_response(<<>>, "Missing 'from' field")]
               ELSE IF msg.body = <<>>
               THEN [same EXCEPT !.resp = error_response(msg.from, "Missing 'body' field")]
               ELSE [same EXCEPT !.wait = "message"]
          [] msg.msg_type = "action" ->
               CASE action = "ping" -> [same EXCEPT !.resp = Response(msg.from, Some("pong"), <<>>)]
                 [] action = "reset" ->
                      IF msg.from # <<>> /\ msg.from[1] # ""
                      THEN [same EXCEPT !.wait = "reset"]
                      ELSE [same EXCEPT !.resp = Response(msg.from, Some("Conversation reset."), <<>>)]
                 [] action = "poll_notifications" -> [same EXCEPT !.wait = "queue"]
                 [] OTHER ->
                      [same EXCEPT !.resp = error_response(msg.from, "Unknown action: " \o action)]
          [] OTHER ->
               [same EXCEPT !.resp = error_response(<<>>,
                                        "Unexpected message type 'response' from client")]

\* the response of the message arm for the result of chat_as_user
chat_response(p, result) ==
    IF result.ok THEN Response(Some(p), Some(result.value), <<>>)
    ELSE error_response(Some(p), result.value)

\* The task of a connection:
\*   stage   "read" (in lines.next_line), "lock" (in agent.lock), "chat" (in
\*           chat_as_user, with the lock), "qlock" (in notify_queue.lock),
\*           "drain" (with the lock of the queue), "write" (in
\*           writer.write_all), "closed" (handle_connection has returned)
\*   line    the line being handled
\*   resp    the response being written, afterwards the last one written
\*   nlines, nblank, nbad  lines read, those of them that were empty after
\*           trim, and those that did not parse
\*   nresp, nfailed  response lines written, and writes that failed
NewConn == [stage |-> "read", line |-> None, resp |-> NoResponse,
            nlines |-> 0, nblank |-> 0, nbad |-> 0, nresp |-> 0, nfailed |-> 0]

\* run_daemon: the agent behind its lock, the empty queue, the connections
InitDaemon ==
    /\ lock = None
    /\ qlock = None
    /\ notify_queue = <<>>
    /\ conns = [c \in Conns |-> NewConn]
    /\ nreads = 0
    /\ npushes = 0
    /\ polled = <<>>

\* mutant: a line that does not parse ends handle_connection
on_parse_error_Closes(cn) == [cn EXCEPT !.stage = "closed", !.nbad = @ + 1, !.line = None]

\* the line did not parse: the error response is written and the loop goes on
on_parse_error(cn) ==
    [cn EXCEPT !.stage = "write", !.nbad = @ + 1,
               !.resp = error_response(<<>>, "Invalid JSON: parse error")]

\* mutant: an empty line is answered like a line that does not parse
on_blank_Answered(cn) == on_parse_error(cn)

\* the line is empty after trim: `continue`
on_blank(cn) == [cn EXCEPT !.nblank = @ + 1, !.line = None]

\* handle_connection reads `line` and handles it up to its next await: the
\* next read for an empty line, the write of the response, or agent.lock
ReadLine(c, line) ==
    LET trimmed == trim(line)
        msg == from_str(trimmed)
        r == process_ipc_message(msg, notify_queue)
        cn == [conns[c] EXCEPT !.nlines = @ + 1, !.line = line]
    IN  /\ conns[c].stage = "read"
        /\ nreads' = nreads + 1
        /\ UNCHANGED <<lock, qlock, npushes, polled, agent_vars, safety_vars, sched_vars>>
        /\ IF trimmed = ""
           THEN /\ conns' = [conns EXCEPT ![c] = on_blank(cn)]
                /\ UNCHANGED notify_queue
           ELSE IF ~msg.ok
           THEN /\ conns' = [conns EXCEPT ![c] = on_parse_error(cn)]
                /\ UNCHANGED notify_queue
           ELSE /\ conns' = [conns EXCEPT ![c] =
                       [cn EXCEPT !.stage = CASE r.wait = "none" -> "write"
                                                 [] r.wait = "queue" -> "qlock"
                                                 [] OTHER -> "lock",
                                  !.resp = r.resp]]
                /\ notify_queue' = r.queue

\* lines.next_line() returns None (the client has closed) or an error
ReadEof(c) ==
    /\ conns[c].stage = "read"
    /\ conns' = [conns EXCEPT ![c] = [@ EXCEPT !.stage = "closed", !.line = None]]
    /\ UNCHANGED <<lock, qlock, notify_queue, nreads, npushes, polled, agent_vars, safety_vars, sched_vars>>

\* mutant: the lock does not exclude: agent.lock().await returns although
\* another task is inside a turn
AcquireLock_NoMutex(c) ==
    LET msg == from_str(trim(conns[c].line))
        p == IF msg.from = <<>> THEN "" ELSE msg.from[1]
        body == IF msg.body = <<>> THEN "" ELSE msg.body[1]
    IN  /\ conns[c].stage = "lock"
        /\ UNCHANGED <<qlock, notify_queue, nreads, npushes, polled, safety_vars, sched_vars>>
        /\ IF msg.action = Some("reset")
           THEN /\ ResetUserConversation(p)
                /\ conns' = [conns EXCEPT ![c] =
                       [@ EXCEPT !.stage = "write",
                                 !.resp = Response(msg.from, Some("Conversation reset."), <<>>)]]
                /\ UNCHANGED lock
           ELSE /\ IF pc = "idle" THEN ChatAsUser(p, body, "ok") ELSE UNCHANGED agent_vars
                /\ conns' = [conns EXCEPT ![c] = [@ EXCEPT !.stage = "chat"]]
                /\ lock' = c

\* agent.lock().await returns: a reset is done and the lock dropped at once;
\* a message starts chat_as_user, which runs to its first provider.complete
AcquireLock(c) ==
    LET msg == from_str(trim(conns[c].line))
        p == IF msg.from = <<>> THEN "" ELSE msg.from[1]
        body == IF msg.body = <<>> THEN "" ELSE msg.body[1]
    IN  /\ conns[c].stage = "lock"
        /\ lock = None
        /\ UNCHANGED <<qlock, notify_queue, nreads, npushes, polled, safety_vars, sched_vars>>
        /\ IF msg.action = Some("reset")
           THEN /\ ResetUserConversation(p)
                /\ conns' = [conns EXCEPT ![c] =
                       [@ EXCEPT !.stage = "write",
                                 !.resp = Response(msg.from, Some("Conversation reset."), <<>>)]]
                /\ UNCHANGED lock
           ELSE /\ ChatAsUser(p, body, "ok")
                /\ conns' = [conns EXCEPT ![c] = [@ EXCEPT !.stage = "chat"]]
                /\ lock' = c

\* mutant: an Err of chat_as_user is returned with `?`: the lock is dropped
\* and handle_connection ends without a response
HolderStep_ErrorCloses(A) ==
    /\ lock \in Conns
    /\ conns[lock].stage = "chat"
    /\ A
    /\ IF pc' = "idle"
       THEN /\ conns' = [conns EXCEPT ![lock] =
                   IF ret'.ok
                   THEN [@ EXCEPT !.stage = "write", !.resp = chat_response(phone, ret')]
                   ELSE [@ EXCEPT !.stage = "closed", !.line = None]]
            /\ lock' = None
       ELSE UNCHANGED <<conns, lock>>
    /\ UNCHANGED <<qlock, notify_queue, nreads, npushes, polled, safety_vars, sched_vars>>

\* A step of the agent inside the chat_as_user of the lock's holder; when
\* chat_as_user returns, the response is built and the lock dropped
HolderStep(A) ==
    /\ lock \in Conns
    /\ conns[lock].stage = "chat"
    /\ A
    /\ IF pc' = "idle"
       THEN /\ conns' = [conns EXCEPT ![lock] =
                   [@ EXCEPT !.stage = "write", !.resp = chat_response(phone, ret')]]
            /\ lock' = None
       ELSE UNCHANGED <<conns, lock>>
    /\ UNCHANGED <<qlock, notify_queue, nreads, npushes, polled, safety_vars, sched_vars>>

\* notify_queue.lock().await returns in the poll_notifications arm
AcquireQueue(c) ==
    /\ conns[c].stage = "qlock"
    /\ qlock = None
    /\ qlock' = c
    /\ conns' = [conns EXCEPT ![c] = [@ EXCEPT !.stage = "drain"]]
    /\ UNCHANGED <<lock, notify_queue, nreads, npushes, polled, agent_vars, safety_vars, sched_vars>>

\* mutant: the guard of the queue is still alive when the response is written
Drain_KeepsLock(c) ==
    /\ conns[c].stage = "drain"
    /\ notify_queue' = drain(notify_queue).rest
    /\ polled' = polled \o drain(notify_queue).batch
    /\ conns' = [conns EXCEPT ![c] =
           [@ EXCEPT !.stage = "write",
                     !.resp = Response(from_str(trim(conns[c].line)).from, <<>>,
                                       Some(drain(notify_queue).batch))]]
    /\ UNCHANGED <<lock, qlock, nreads, npushes, agent_vars, safety_vars, sched_vars>>

\* mutant: the batch is copied from the front of the queue and stays there
Drain_Copies(c) ==
    /\ conns[c].stage = "drain"
    /\ polled' = polled \o drain(notify_queue).batch
    /\ qlock' = None
    /\ conns' = [conns EXCEPT ![c] =
           [@ EXCEPT !.stage = "write",
                     !.resp = Response(from_str(trim(conns[c].line)).from, <<>>,
                                       Some(drain(notify_queue).batch))]]
    /\ UNCHANGED <<lock, notify_queue, nreads, npushes, agent_vars, safety_vars, sched_vars>>

\* the poll_notifications arm with the lock of the queue: the batch is
\* drained, the guard dropped and the response built
Drain(c) ==
    /\ conns[c].stage = "drain"
    /\ notify_queue' = drain(notify_queue).rest
    /\ polled' = polled \o drain(notify_queue).batch
    /\ qlock' = None
    /\ conns' = [conns EXCEPT ![c] =
           [@ EXCEPT !.stage = "write",
                     !.resp = Response(from_str(trim(conns[c].line)).from, <<>>,
                                       Some(drain(notify_queue).batch))]]
    /\ UNCHANGED <<lock, nreads, npushes, agent_vars, safety_vars, sched_vars>>

\* writer.write_all returns Ok
WriteDone(c) ==
    /\ conns[c].stage = "write"
    /\ conns' = [conns EXCEPT ![c] = [@ EXCEPT !.stage = "read", !.nresp = @ + 1, !.line = None]]
    /\ UNCHANGED <<lock, qlock, notify_queue, nreads, npushes, polled, agent_vars, safety_vars, sched_vars>>

\* writer.write_all returns Err: ignored for the error response of a line that
\* did not parse, returned with `?` for the others
WriteFail(c) ==
    /\ conns[c].stage = "write"
    /\ conns' = [conns EXCEPT ![c] =
           [@ EXCEPT !.stage = IF from_str(trim(conns[c].line)).ok THEN "closed" ELSE "read",
                     !.nfailed = @ + 1, !.resp = NoResponse, !.line = None]]
    /\ UNCHANGED <<lock, qlock, notify_queue, nreads, npushes, polled, agent_vars, safety_vars, sched_vars>>

\* run_scheduler pushes the message of an automation run, one item for each
\* allowed number; the message of the n-th run is n
SchedPush ==
    /\ qlock = None
    /\ npushes' = npushes + 1
    /\ notify_queue' = notify_queue \o
           [i \in 1..Len(allowed_numbers) |-> [to |-> allowed_numbers[i], body |-> npushes + 1]]
    /\ UNCHANGED <<lock, qlock, conns, nreads, polled, agent_vars, safety_vars, sched_vars>>

\* ---------------------------------------------------------------------------
\* Scheduler (automations.rs)
\* ---------------------------------------------------------------------------

\* The local times at which the scheduler may wake, in their order: Saturday
\* 2026-02-21 09:00 and 09:01, Sunday 2026-02-22 09:00 and 09:01
Times ==
    <<Time(2, 21, 6, 9, 0), Time(2, 21, 6, 9, 1), Time(2, 22, 0, 9, 0), Time(2, 22, 0, 9, 1)>>

\* An [[automation]] entry of automations.toml; each key is there or not
Entry(name, schedule, action, notify, enabled) ==
    [name |-> name, schedule |-> schedule, action |-> action, notify |-> notify,
     enabled |-> enabled]

\* Automation (auto_apply is not read by the scheduler)
Automation(name, schedule, action, notify, enabled) ==
    [name |-> name, schedule |-> schedule, action |-> action, notify |-> notify,
     enabled |-> enabled]

EveryMinute == <<"*", " ", "*", " ", "*", " ", "*", " ", "*">>
DailyAtNine == <<"0", " ", "9", " ", "*", " ", "*", " ", "*">>
FourFields == <<"0", " ", "9", " ", "*", " ", "*">>
EveryZeroMinutes == <<"*", "/", "0", " ", "*", " ", "*", " ", "*", " ", "*">>

\* automations.toml: "missing", "unreadable", "bad_toml" (not TOML),
\* "no_array" (no key `automation`, or one that is not an array), or "ok"
\* with its entries
File(state, entries) == [state |-> state, entries |-> entries]

BusyFile ==
    File("ok", <<Entry(Some("daily"), Some(DailyAtNine), Some(ActionText), Some("whatsapp"),
                       Some(TRUE)),
                 Entry(Some("off"), Some(EveryMinute), Some(ActionText), Some("whatsapp"),
                       Some(FALSE)),
                 Entry(Some("mail"), Some(EveryMinute), Some(ActionText), Some("email"), <<>>)>>)

OddFile ==
    File("ok", <<Entry(Some("no action"), Some(EveryMinute), <<>>, <<>>, <<>>),
                 Entry(<<>>, <<>>, Some(ActionText), <<>>, <<>>),
                 Entry(Some("short"), Some(FourFields), Some(ActionText), <<>>, <<>>),
                 Entry(Some("never"), Some(EveryZeroMinutes), Some(ActionText), <<>>, <<>>)>>)

StoreContents ==
    {File("missing", <<>>), File("unreadable", <<>>), File("bad_toml", <<>>),
     File("no_array", <<>>), BusyFile, OddFile}

unwrap_or(opt, default) == IF opt = <<>> THEN default ELSE opt[1]

\* mutant: when the file cannot be read, the automations of the default
\* template are returned
load_DefaultsOnMissing(file) ==
    IF file.state # "ok"
    THEN <<Automation("default", EveryMinute, ActionText, "whatsapp", TRUE)>>
    ELSE <<>>

\* AutomationsConfig::load: no automations unless the file is read, parsed
\* and has the array; an entry without `action` is skipped, the other keys
\* have defaults
load(file) ==
    IF file.state # "ok" THEN <<>>
    ELSE LET kept == SelectSeq(file.entries, LAMBDA e : e.action # <<>>)
         IN  [i \in 1..Len(kept) |->
                 Automation(unwrap_or(kept[i].name, "unnamed"),
                            unwrap_or(kept[i].schedule, DailyAtNine),
                            kept[i].action[1],
                            unwrap_or(kept[i].notify, "whatsapp"),
                            unwrap_or(kept[i].enabled, TRUE))]

\* the notification body for the result of run_automation
format_message(name, result) ==
    IF result.ok THEN "Blunux AI Agent - " \o name \o ": " \o result.value
    ELSE "Blunux AI Agent - " \o name \o ": automation error: " \o result.value

\* mutant: the notification goes to the first allowed number only
push_all_FirstOnly(queue, message) ==
    Append(queue, [to |-> allowed_numbers[1], body |-> message])

\* queue.push_back((phone, message)) for each allowed number
push_all(queue, message) ==
    queue \o [i \in 1..Len(allowed_numbers) |-> [to |-> allowed_numbers[i], body |-> message]]

\* mutant: the `enabled` flag is not looked at
next_triggered_IgnoresEnabled(cfg, now, from) ==
    LET hits == {i \in from..Len(cfg) : cron_matches(cfg[i].schedule, now)}
    IN  IF hits = {} THEN 0 ELSE Min(hits)

\* the `for` loop over cfg.automations from position `from`: the first
\* automation that is enabled and whose schedule matches `now`, 0 when the
\* loop ends without one
next_triggered(cfg, now, from) ==
    LET hits == {i \in from..Len(cfg) : cfg[i].enabled /\ cron_matches(cfg[i].schedule, now)}
    IN  IF hits = {} THEN 0 ELSE Min(hits)

\* The run_scheduler task:
\*   stage        "sleep" (in tokio::time::sleep), "lock" (in agent.lock),
\*                "run" (in run_automation, with the lock), "qlock" (in
\*                notify_queue.lock), "push" (with the lock of the queue)
\*   last_minute  Option<(hour, minute)>
\*   now, cfg     the time and the automations of the cycle; idx is the
\*                position of `auto` in cfg
\*   message      the message of the last run
\*   at, loaded   the index of `now` in Times, and the file as it was loaded
\*   wakes, cycles  returns of the sleep, and those that got past the guard
\*   runs         the automations triggered so far: cycle, position, name,
\*                time and, once run_automation has returned, its result
NewSched ==
    [stage |-> "sleep", last_minute |-> <<>>, now |-> Times[1], cfg |-> <<>>, idx |-> 0,
     message |-> None, at |-> 0, loaded |-> File("missing", <<>>), wakes |-> 0, cycles |-> 0,
     runs |-> <<>>]

InitSched(contents) ==
    /\ sched = NewSched
    /\ clock = 1
    /\ store \in contents
    /\ nedits = 0
    /\ matched = <<>>

\* the `for` loop goes on after position sc.idx, to the next agent.lock or
\* to the end of the cycle
next_automation(sc) ==
    LET i == next_triggered(sc.cfg, sc.now, sc.idx + 1)
    IN  IF i = 0 THEN [sc EXCEPT !.stage = "sleep", !.idx = 0]
        ELSE [sc EXCEPT !.stage = "lock", !.idx = i,
                        !.runs = Append(@, [cycle |-> sc.cycles, idx |-> i,
                                            name |-> sc.cfg[i].name, at |-> sc.at,
                                            result |-> None])]

\* mutant: a wake that comes after minutes without a cycle evaluates the
\* schedules against the first of these minutes
process_wake_CatchesUp(sc, t, file) ==
    LET u == IF sc.cycles > 0 /\ sc.at + 1 < t THEN sc.at + 1 ELSE t
    IN  next_automation([sc EXCEPT !.last_minute = Some(<<Times[u].hour, Times[u].minute>>),
                                   !.now = Times[u], !.at = u, !.cfg = load(file),
                                   !.loaded = file, !.idx = 0,
                                   !.wakes = @ + 1, !.cycles = @ + 1])

\* the cycle of a wake at Times[t] with the file `file`
process_wake(sc, t, file) ==
    next_automation([sc EXCEPT !.last_minute = Some(<<Times[t].hour, Times[t].minute>>),
                               !.now = Times[t], !.at = t, !.cfg = load(file),
                               !.loaded = file, !.idx = 0,
                               !.wakes = @ + 1, !.cycles = @ + 1])

\* mutant: there is no guard on last_minute
on_wake_NoGuard(sc, t, file) == process_wake(sc, t, file)

\* the sleep returns at Times[t]: `continue` when (hour, minute) is the last
\* one processed, the cycle otherwise
on_wake(sc, t, file) ==
    IF sc.last_minute = Some(<<Times[t].hour, Times[t].minute>>)
    THEN [sc EXCEPT !.wakes = @ + 1]
    ELSE process_wake(sc, t, file)

\* mutant: the error of run_automation is returned with `?` and the task ends
on_reply_StopsOnError(sc, result) ==
    IF result.ok
    THEN [sc EXCEPT !.stage = "qlock", !.message = format_message(sc.cfg[sc.idx].name, result),
                    !.runs[Len(sc.runs)].result = "Ok"]
    ELSE [sc EXCEPT !.stage = "stopped", !.runs[Len(sc.runs)].result = "Err"]

\* run_automation has returned `result`: the message is built and pushed to
\* the allowed numbers when the channel is "whatsapp"; otherwise the loop
\* goes on
on_reply(sc, result) ==
    LET auto == sc.cfg[sc.idx]
        sc1 == [sc EXCEPT !.message = format_message(auto.name, result),
                          !.runs[Len(sc.runs)].result = IF result.ok THEN "Ok" ELSE "Err"]
    IN  IF auto.notify = "whatsapp" /\ allowed_numbers # <<>>
        THEN [sc1 EXCEPT !.stage = "qlock"]
        ELSE next_automation(sc1)

\* tokio::time::sleep returns and the local time is Times[t]
Wake(t) ==
    /\ sched.stage = "sleep"
    /\ t >= clock
    /\ clock' = t
    /\ sched' = on_wake(sched, t, store)
    /\ UNCHANGED <<store, nedits, matched, agent_vars, safety_vars, daemon_vars>>

\* agent.lock().await returns and run_automation runs to its first
\* provider.complete
SchedAcquire ==
    /\ sched.stage = "lock"
    /\ lock = None
    /\ lock' = "scheduler"
    /\ RunAutomation(sched.cfg[sched.idx].action, "ok")
    /\ sched' = [sched EXCEPT !.stage = "run"]
    /\ UNCHANGED <<clock, store, nedits, matched, safety_vars, qlock, notify_queue, conns,
                   nreads, npushes, polled>>

\* mutant: the guard of the agent lives on after run_automation has
\* returned, while the scheduler takes the lock of the queue
SchedStep_KeepsGuard(A) ==
    /\ lock = "scheduler"
    /\ sched.stage = "run"
    /\ A
    /\ IF pc' = "idle"
       THEN sched' = on_reply(sched, ret')
       ELSE UNCHANGED sched
    /\ UNCHANGED <<clock, store, nedits, matched, safety_vars, lock, qlock, notify_queue, conns,
                   nreads, npushes, polled>>

\* A step of the agent inside the run_automation of the scheduler; when it
\* returns, the guard is dropped and the message built
SchedStep(A) ==
    /\ lock = "scheduler"
    /\ sched.stage = "run"
    /\ A
    /\ IF pc' = "idle"
       THEN /\ sched' = on_reply(sched, ret')
            /\ lock' = None
       ELSE UNCHANGED <<sched, lock>>
    /\ UNCHANGED <<clock, store, nedits, matched, safety_vars, qlock, notify_queue, conns,
                   nreads, npushes, polled>>

\* notify_queue.lock().await returns
SchedQueueLock ==
    /\ sched.stage = "qlock"
    /\ qlock = None
    /\ qlock' = "scheduler"
    /\ sched' = [sched EXCEPT !.stage = "push"]
    /\ UNCHANGED <<clock, store, nedits, matched, agent_vars, safety_vars, lock, notify_queue,
                   conns, nreads, npushes, polled>>

\* the pushes, and the drop of the guard at the end of the block
SchedEnqueue ==
    /\ sched.stage = "push"
    /\ notify_queue' = push_all(notify_queue, sched.message)
    /\ qlock' = None
    /\ sched' = next_automation(sched)
    /\ UNCHANGED <<clock, store, nedits, matched, agent_vars, safety_vars, lock, conns,
                   nreads, npushes, polled>>

\* automations.toml is edited, removed or made unreadable
EditStore(file) ==
    /\ file # store
    /\ store' = file
    /\ nedits' = nedits + 1
    /\ UNCHANGED <<sched, clock, matched, agent_vars, safety_vars, daemon_vars>>

\* A minute boundary passes while the scheduler is in the `for` loop of a
\* cycle (in agent.lock, run_automation or notify_queue.lock)
MinutePasses ==
    /\ sched.stage # "sleep"
    /\ clock < Len(Times)
    /\ clock' = clock + 1
    /\ UNCHANGED <<sched, store, nedits, matched, agent_vars, safety_vars, daemon_vars>>

\* ---------------------------------------------------------------------------
\* Specifications
\* ---------------------------------------------------------------------------

\* the completions offered in the current round-trip: any of S while the
\* provider may still ask for tools, afterwards those that end the turn
Offered(S) ==
    IF iterations <= MaxToolRounds THEN S
    ELSE {c \in S : ~c.ok \/ c.stop_reason # "tool_use"}

\* --- Spec: the daemon's use of the agent, and the interactive chat, over
\* --- several turns
\* what the agent alone leaves as it is
other_vars == <<safety_vars, daemon_vars, sched_vars>>

Init == InitAgent(TRUE) /\ InitSafety /\ InitDaemon /\ InitSched({BusyFile})

SessChat ==
    /\ turns < MaxTurns /\ \E f \in {"ok", "unreadable"} : Chat(LocalText, f)
    /\ UNCHANGED other_vars

SessChatAsUser ==
    /\ turns < MaxTurns
    /\ \E p \in Identities, f \in {"ok", "unreadable"} : ChatAsUser(p, UserText(p), f)
    /\ UNCHANGED other_vars

SessRunAutomation ==
    /\ turns < MaxTurns /\ \E f \in {"ok", "unreadable"} : RunAutomation(ActionText, f)
    /\ UNCHANGED other_vars

SessReset == (\E p \in Identities : ResetUserConversation(p)) /\ UNCHANGED other_vars

SessResetConversation == ResetConversation /\ UNCHANGED other_vars

SessProvider == (\E c \in Offered(SessionCompletions) : ProviderReturn(c)) /\ UNCHANGED other_vars

SessTool == ExecuteTool("", "ok") /\ UNCHANGED other_vars

Next ==
    \/ SessChat
    \/ SessChatAsUser
    \/ SessRunAutomation
    \/ SessReset
    \/ SessResetConversation
    \/ SessProvider
    \/ SessTool

Spec == Init /\ [][Next]_vars

\* --- SpecLoop: turns in which the provider may ask for tools in every
\* --- round-trip
LoopChat == turns < MaxLoopTurns /\ Chat(LocalText, "ok") /\ UNCHANGED other_vars

LoopChatAsUser ==
    turns < MaxLoopTurns /\ ChatAsUser("A", UserText("A"), "ok") /\ UNCHANGED other_vars

LoopProvider == (\E c \in LoopCompletions : ProviderReturn(c)) /\ UNCHANGED other_vars

LoopTool == ExecuteTool("", "ok") /\ UNCHANGED other_vars

NextLoop ==
    \/ LoopChat
    \/ LoopChatAsUser
    \/ LoopProvider
    \/ LoopTool

SpecLoop == Init /\ [][NextLoop]_vars

\* every provider call and every tool call returns
SpecLoopFair == SpecLoop /\ WF_vars(LoopProvider) /\ WF_vars(LoopTool)

\* --- SpecTools: the first turn of an interactive agent and of a daemon
\* --- agent, in which the provider asks for every kind of tool
InitTools ==
    (\E d \in BOOLEAN : InitAgent(d)) /\ InitSafety /\ InitDaemon /\ InitSched({BusyFile})

ToolsChat ==
    turns = 0 /\ (\E f \in {"ok", "readonly"} : Chat(LocalText, f)) /\ UNCHANGED other_vars

ToolsProvider == (\E c \in Offered(ToolsCompletions) : ProviderReturn(c)) /\ UNCHANGED other_vars

ToolsTool ==
    (\E a \in Answers, o \in ToolOutcomes : ExecuteTool(a, o)) /\ UNCHANGED other_vars

\* --- SpecSafety: calls of SafetyChecker::check, one after the other

\* mutant: once a command was Blocked, every later command is Blocked
SafetyCheck_Remembers(c) ==
    /\ Len(checks) < MaxChecks
    /\ checks' = Append(checks,
           [command |-> c,
            result |-> IF \E i \in 1..Len(checks) : checks[i].result.kind = "Blocked"
                       THEN [kind |-> "Blocked", reason |-> "Repeated"]
                       ELSE check(c)])
    /\ UNCHANGED <<safety, agent_vars, daemon_vars, sched_vars>>

\* self.safety.check(c), by &self
SafetyCheck(c) ==
    /\ Len(checks) < MaxChecks
    /\ checks' = Append(checks, [command |-> c, result |-> check(c)])
    /\ UNCHANGED <<safety, agent_vars, daemon_vars, sched_vars>>

NextSafety == \E c \in SafetyCommands : SafetyCheck(c)

SpecSafety == Init /\ [][NextSafety]_vars

\* --- SpecDaemon: two connections, the agent behind its lock and the
\* --- scheduler's pushes

\* the lines the clients send in SpecDaemon
DaemonLines ==
    {Line("message", p) : p \in Identities} \cup
    {Line(k, "A") : k \in {"no_from", "no_body", "reset", "poll", "not_json", "bad_type",
                           "blank"}}

DaemonCompletions == {EndTurnText, ToolUseDisk, ProviderErr}

DaemonRead == nreads < MaxReads /\ \E c \in Conns, l \in DaemonLines : ReadLine(c, l)

DaemonEof == \E c \in Conns : ReadEof(c)

DaemonLock == \E c \in Conns : AcquireLock(c)

DaemonProvider == HolderStep(\E c \in Offered(DaemonCompletions) : ProviderReturn(c))

DaemonTool == HolderStep(ExecuteTool("", "ok"))

DaemonWrite == \E c \in Conns : WriteDone(c)

DaemonQueueLock == \E c \in Conns : AcquireQueue(c)

DaemonDrain == \E c \in Conns : Drain(c)

DaemonWriteFail == \E c \in Conns : WriteFail(c)

\* in SpecDaemon the scheduler pushes when the queue is empty
DaemonPush == notify_queue = <<>> /\ SchedPush

NextDaemon ==
    \/ DaemonRead
    \/ DaemonEof
    \/ DaemonLock
    \/ DaemonProvider
    \/ DaemonTool
    \/ DaemonWrite
    \/ DaemonWriteFail
    \/ DaemonPush
    \/ DaemonQueueLock
    \/ DaemonDrain

SpecDaemon == Init /\ [][NextDaemon]_vars

\* --- SpecQueue: the notification queue between the scheduler and the polls

QueueLines == {Line("poll", None), Line("ping", "A")}

QueueRead == nreads < MaxPolls /\ \E c \in Conns, l \in QueueLines : ReadLine(c, l)

QueuePush == npushes < MaxQueuePushes /\ SchedPush

NextQueue ==
    \/ QueueRead
    \/ DaemonWrite
    \/ QueuePush
    \/ DaemonQueueLock
    \/ DaemonDrain

SpecQueue == Init /\ [][NextQueue]_vars

\* --- SpecDispatch: the arms of process_ipc_message for the envelopes of one
\* --- identity, on two connections

DispatchLines ==
    {Line("message", "A"), Line("reset", "A"), Line("ping", "A"), Line("bad_action", "A"),
     Line("no_action", None), Line("response", "A")}

DispatchCompletions == {EndTurnText, ProviderErr}

DispatchRead ==
    nreads < MaxDispatchReads /\ \E c \in Conns, l \in DispatchLines : ReadLine(c, l)

DispatchProvider == HolderStep(\E c \in DispatchCompletions : ProviderReturn(c))

NextDispatch ==
    \/ DispatchRead
    \/ DaemonLock
    \/ DispatchProvider
    \/ DaemonWrite
    \/ DaemonPush

SpecDispatch == Init /\ [][NextDispatch]_vars

\* --- SpecCron: the scheduler alone, with any automations.toml

InitCron == InitAgent(TRUE) /\ InitSafety /\ InitDaemon /\ InitSched(StoreContents)

CronCompletions == {EndTurnText, ProviderErr}

CronWake == sched.wakes < MaxWakes /\ \E t \in 1..Len(Times) : Wake(t)

CronProvider == SchedStep(\E c \in CronCompletions : ProviderReturn(c))

CronEdit == nedits < MaxEdits /\ \E f \in StoreContents : EditStore(f)

NextCron ==
    \/ CronWake
    \/ SchedAcquire
    \/ CronProvider
    \/ SchedQueueLock
    \/ SchedEnqueue
    \/ CronEdit

SpecCron == InitCron /\ [][NextCron]_vars

\* --- SpecSched: the scheduler and two connections, with the automations of
\* --- BusyFile

SchedLines == {Line("message", "A"), Line("poll", None), Line("reset", "A")}

\* the wakes are at the times up to Sunday 09:00
SchedWake == sched.wakes < MaxSchedWakes /\ \E t \in 1..(Len(Times) - 1) : Wake(t)

SchedRead == nreads < MaxSchedReads /\ \E c \in Conns, l \in SchedLines : ReadLine(c, l)

SchedConnProvider == HolderStep(\E c \in CronCompletions : ProviderReturn(c))

NextSched ==
    \/ SchedWake
    \/ SchedAcquire
    \/ CronProvider
    \/ SchedQueueLock
    \/ SchedEnqueue
    \/ SchedRead
    \/ DaemonLock
    \/ SchedConnProvider
    \/ DaemonQueueLock
    \/ DaemonDrain
    \/ DaemonWrite

SpecSched == Init /\ [][NextSched]_vars

\* --- SpecBusy: requests that need the agent lock and requests that do not,
\* --- with turns that may last for ever

\* automations.toml with one automation, triggered at every minute
OneFile ==
    File("ok", <<Entry(Some("daily"), Some(EveryMinute), Some(ActionText), <<>>, <<>>)>>)

InitBusy == InitAgent(TRUE) /\ InitSafety /\ InitDaemon /\ InitSched({OneFile})

\* the lines of the first connection need the agent lock, those of the
\* second do not
BusyLines ==
    [c \in Conns |->
        IF c = "c1" THEN {Line("message", "A"), Line("reset", "A")}
        ELSE {Line("ping", "A"), Line("poll", None)}]

BusyWake == sched.wakes < MaxBusyWakes /\ Wake(1)

BusyRead == nreads < MaxBusyReads /\ \E c \in Conns : \E l \in BusyLines[c] : ReadLine(c, l)

NextBusy ==
    \/ BusyWake
    \/ SchedAcquire
    \/ CronProvider
    \/ SchedQueueLock
    \/ SchedEnqueue
    \/ BusyRead
    \/ DaemonLock
    \/ SchedConnProvider
    \/ DaemonQueueLock
    \/ DaemonDrain
    \/ DaemonWrite

SpecBusy == InitBusy /\ [][NextBusy]_vars

\* write_all returns, the lock of the queue is granted when it is free, and a
\* drain and the pushes end; provider.complete need not return
SpecBusyFair ==
    /\ SpecBusy
    /\ \A c \in Conns :
           WF_vars(WriteDone(c)) /\ WF_vars(AcquireQueue(c)) /\ WF_vars(Drain(c))
    /\ WF_vars(SchedQueueLock)
    /\ WF_vars(SchedEnqueue)

\* --- SpecReply: the reply of chat for completions with several text blocks
\* --- or none, after round-trips with text of their own

ReplyCompletions == {EndTurnText, MaxTokensCut, TwoTexts, NoText, ToolUseDisk, ToolUseNone}

ReplyChat ==
    /\ turns < MaxReplyTurns
    /\ \/ Chat(LocalText, "ok")
       \/ ChatAsUser("A", UserText("A"), "ok")
    /\ UNCHANGED other_vars

ReplyProvider ==
    (\E c \in Offered(ReplyCompletions) : ProviderReturn(c)) /\ UNCHANGED other_vars

NextReply ==
    \/ ReplyChat
    \/ ReplyProvider
    \/ SessTool

SpecReply == Init /\ [][NextReply]_vars

\* --- SpecField: calls of field_matches

\* the texts of a field
Fields ==
    {<<"*">>, <<"0">>, <<"5">>, <<"0", "5">>, <<"+", "5">>, <<"1", "2">>,
     <<"*", "/", "5">>, <<"*", "/", "1">>, <<"*", "/", "+", "3">>, <<"*", "/", "0">>,
     <<"*", "/", "x">>, <<"*", "/">>, <<"*", "/", "-", "3">>, <<"*", "/", "5", "/", "2">>,
     <<"-", "1">>, <<"1", "-", "5">>, <<"1", ",", "5">>, <<"x">>, <<"*", "*">>, <<"5", "*">>,
     <<"+">>, <<>>,
     <<"4", "2", "9", "4", "9", "6", "7", "2", "9", "5">>,
     <<"4", "2", "9", "4", "9", "6", "7", "2", "9", "6">>,
     <<"*", "/", "4", "2", "9", "4", "9", "6", "7", "2", "9", "5">>,
     <<"*", "/", "4", "2", "9", "4", "9", "6", "7", "2", "9", "6">>}

FieldMatch(f, v) ==
    /\ Len(matched) < MaxFieldCalls
    /\ matched' = Append(matched, [field |-> f, value |-> v, result |-> field_matches(f, v)])
    /\ UNCHANGED <<sched, clock, store, nedits, agent_vars, safety_vars, daemon_vars>>

NextField == \E f \in Fields, v \in 0..MaxValue : FieldMatch(f, v)

SpecField == Init /\ [][NextField]_vars

\* --- SpecMatch: calls of cron_matches

EverySixHours == <<"0", " ", "*", "/", "6", " ", "*", " ", "*", " ", "*">>
SixFields == <<"0", " ", "9", " ", "*", " ", "*", " ", "*", " ", "*">>
SundayAtNine == <<"0", " ", "9", " ", "*", " ", "*", " ", "0">>
OneDate == <<"1", " ", "0", " ", "2", "2", " ", "2", " ", "*">>
Padded == <<" ", "0", "\t", " ", "9", " ", "*", " ", "*", " ", " ", "*", " ">>

\* the schedules given to cron_matches
MatchSchedules ==
    {DailyAtNine, EverySixHours, FourFields, SixFields, SundayAtNine, OneDate, Padded}

\* the times given to cron_matches: every hour, minutes 0 and 1, of Sunday
\* 2026-02-22, and 00:00, 00:01, 09:00, 09:01 of Saturday 2026-02-21
MatchTimes ==
    {Time(2, 22, 0, h, m) : h \in 0..23, m \in {0, 1}} \cup
    {Time(2, 21, 6, h, m) : h \in {0, 9}, m \in {0, 1}}

CronMatch(s, t) ==
    /\ Len(matched) < MaxCronCalls
    /\ matched' = Append(matched, [schedule |-> s, now |-> t, result |-> cron_matches(s, t)])
    /\ UNCHANGED <<sched, clock, store, nedits, agent_vars, safety_vars, daemon_vars>>

NextMatch == \E s \in MatchSchedules, t \in MatchTimes : CronMatch(s, t)

SpecMatch == Init /\ [][NextMatch]_vars

\* --- SpecLate: the scheduler alone, with runs that last past minute
\* --- boundaries

\* automations.toml with an automation for every minute and one for 09:00
\* on Sundays
LateFile ==
    File("ok", <<Entry(Some("every"), Some(EveryMinute), Some(ActionText), <<>>, <<>>),
                 Entry(Some("sunday"), Some(SundayAtNine), Some(ActionText), <<>>, <<>>)>>)

InitLate == InitAgent(TRUE) /\ InitSafety /\ InitDaemon /\ InitSched({LateFile})

LateWake == sched.wakes < MaxLateWakes /\ \E t \in 1..Len(Times) : Wake(t)

NextLate ==
    \/ LateWake
    \/ MinutePasses
    \/ SchedAcquire
    \/ CronProvider
    \/ SchedQueueLock
    \/ SchedEnqueue

SpecLate == InitLate /\ [][NextLate]_vars

NextTools ==
    \/ ToolsChat
    \/ ToolsProvider
    \/ ToolsTool

SpecTools == InitTools /\ [][NextTools]_vars

\* ---------------------------------------------------------------------------
\* Properties
\* ---------------------------------------------------------------------------

\* provider.complete calls made by the current call of chat, the one in
\* flight included
ProviderCalls == ncalls + (IF pc = "provider" THEN 1 ELSE 0)

\* C1: one call of chat makes at most 10 calls of provider.complete,
\* whatever the provider answers, and, when every provider call and every
\* tool call returns, the call returns.
C1_AtMostTenRoundTrips ==
    /\ [](ProviderCalls <= 10)
    /\ ((pc # "idle") ~> (pc = "idle"))

\* C1 witness: a turn that used all 10 round-trips and returned Ok
C1_Witness == pc = "idle" /\ ncalls = 10 /\ ret.ok /\ iterations = 11

\* an assistant message with ToolUse blocks at position i of conv is
\* followed by one user message made of the ToolResult blocks of the same
\* ids, in the same order
Answered(conv, i) ==
    /\ i < Len(conv)
    /\ conv[i + 1].role = "user"
    /\ \A j \in 1..Len(conv[i + 1].content) : conv[i + 1].content[j].type = "tool_result"
    /\ IdsOf(conv[i + 1].content, "tool_result") = IdsOf(conv[i].content, "tool_use")

\* C2: whenever provider.complete is called, every assistant message of the
\* conversation that holds ToolUse blocks is followed by the user message
\* with the matching ToolResult blocks.
C2_ToolUseAnswered ==
    pc = "provider" =>
        \A i \in 1..Len(conversation) :
            (conversation[i].role = "assistant" /\ tool_uses(conversation[i].content) # <<>>)
                => Answered(conversation, i)

\* the texts of the Text blocks of the messages of a conversation
TextsIn(conv) ==
    {conv[i].content[j].text :
        <<i, j>> \in {<<a, b>> \in (1..Len(conv)) \X (1..3) :
                        b <= Len(conv[a].content) /\ conv[a].content[b].type = "text"}}

Lines(file) == {file[i] : i \in 1..Len(file)}

StoredOf(m, p) == IF p \in DOMAIN m THEN <<m[p]>> ELSE <<>>

\* a step that belongs to identity p: a step of p's chat_as_user, or p's reset
StepOf(p) ==
    \/ kind' = "chat_as_user" /\ phone' = p /\ (pc # "idle" \/ pc' # "idle" \/ turns' # turns)
    \/ kind' = "reset_user_conversation" /\ phone' = p

\* C3: the stored conversation of an identity holds only messages of that
\* identity's turns, it exists only between a chat_as_user of the identity
\* and its next reset, and no step of another identity (or of an automation
\* or of the interactive chat) changes it.
C3_IdentitiesIsolated ==
    /\ [](\A p \in DOMAIN user_conversations :
            \A i \in 1..Len(user_conversations[p]) : user_conversations[p][i].turn = p)
    /\ [](DOMAIN user_conversations \subseteq contacted)
    /\ [](pc = "idle" => DOMAIN user_conversations = contacted)
    /\ [][\A p \in Identities :
            (StoredOf(user_conversations', p) # StoredOf(user_conversations, p)) => StepOf(p)]_vars

\* C3 witness: a turn of A that asked for a tool has ended while B has a
\* stored conversation, which is the one B had before
C3_Witness ==
    /\ pc = "idle" /\ kind = "chat_as_user" /\ phone = "A"
    /\ "B" \in DOMAIN pre.user_conversations
    /\ "B" \in DOMAIN user_conversations
    /\ "A" \in DOMAIN user_conversations
    /\ Len(user_conversations["A"]) >= 4

\* C4: the input of provider.complete in a turn of identity A (system prompt
\* and messages) holds no text sent by another identity.
C4_NoLeakIntoProviderInput ==
    (pc = "provider" /\ kind = "chat_as_user") =>
        \A q \in Identities \ {phone} :
            /\ UserText(q) \notin Lines(system_prompt.memory_ctx)
            /\ UserText(q) \notin TextsIn(conversation)

\* C5: when chat_as_user has returned, with Ok or with Err, the active slot
\* holds what it held before the call and the identity's stored conversation
\* is the conversation as the inner chat left it; the other stored
\* conversations are as before.
C5_RestoredAndSaved ==
    (pc = "idle" /\ kind = "chat_as_user") =>
        /\ conversation = pre.conversation
        /\ phone \in DOMAIN user_conversations
        /\ user_conversations[phone] = inner
        /\ inner # <<>>
        /\ \A q \in Identities \ {phone} :
              StoredOf(user_conversations, q) = StoredOf(pre.user_conversations, q)

\* C5 witness: chat_as_user returned the provider's error after a tool
\* round-trip, with a conversation in the active slot
C5_Witness ==
    /\ pc = "idle" /\ kind = "chat_as_user"
    /\ ~ret.ok /\ ret.value = "Provider error"
    /\ conversation # <<>>
    /\ Len(user_conversations[phone]) = 3

\* C6: run_automation leaves the active slot and every stored conversation
\* as they were, during the run and after it, on success and on error, and
\* what it sends to the provider starts from the action text alone.
C6_AutomationIsolated ==
    /\ (kind = "run_automation" /\ turns > 0) =>
           user_conversations = pre.user_conversations
    /\ (kind = "run_automation" /\ pc = "idle") => conversation = pre.conversation
    /\ (kind = "run_automation" /\ pc = "provider") =>
           /\ conversation[1] = MessageUser(ActionText, "automation")
           /\ \A i \in 1..Len(conversation) : conversation[i].turn = "automation"
           /\ (ncalls = 0 => Len(conversation) = 1)

\* C6 witness: an automation has failed after a tool round-trip while an
\* identity had a stored conversation
C6_Witness ==
    /\ kind = "run_automation" /\ pc = "idle" /\ ~ret.ok
    /\ pre.user_conversations # EmptyMap
    /\ Len(inner) = 3

\* C7: once run_automation has returned, its action text is in no persistent
\* store (the memory files), no provider input of a user turn holds it, and
\* the provider input of an automation holds no text of a user turn.
C7_AutomationNotPersisted ==
    /\ pc = "idle" => ActionText \notin Lines(daily)
    /\ (pc = "provider" /\ kind \in {"chat", "chat_as_user"}) =>
           ActionText \notin Lines(system_prompt.memory_ctx)
    /\ (pc = "provider" /\ kind = "run_automation") =>
           \A q \in Identities : UserText(q) \notin Lines(system_prompt.memory_ctx)

\* the lines of Answers that are "y" or "yes" up to case and surrounding
\* white space
YesAnswers == {"y", "YES", " Yes "}

\* C8: run_command spawns a shell command only when that command string was
\* classified by SafetyChecker::check in the same execute_tool and not as
\* Blocked; a Blocked command is not executed, its ToolResult is an error and
\* log_command is called with BLOCKED, with and without auto_confirm.
C8_BlockedNeverSpawned ==
    /\ last.spawned # None =>
           /\ last.name = "run_command"
           /\ last.checked = last.spawned
           /\ last.class \in {"Safe", "RequiresConfirmation"}
    /\ last.class = "Blocked" =>
           /\ ~last.executed
           /\ last.spawned = None
           /\ last.block.tool_use_id = last.id
           /\ last.block.is_error
           /\ last.audit = [status |-> "BLOCKED", command |-> last.checked]
    /\ (last.name = "run_command" /\ last.checked # None /\ BlockedMatches(last.checked) # {})
           => last.class = "Blocked"

\* C8 witness: the daemon agent was asked to run a command that a blocked
\* rule and a confirmation rule match, and did not run it
C8_Witness ==
    /\ auto_confirm
    /\ last.checked = "sudo rm -rf /home"
    /\ last.class = "Blocked"
    /\ ~last.executed
    /\ pc = "provider"

\* C9 as claimed: a tool of level RequiresConfirmation is executed only after
\* a prompt answered y or yes, in every agent and for every command.
C9_ExecutedOnlyAfterYes ==
    (last.executed /\ permission_level(last.name) = "RequiresConfirmation") =>
        (last.prompted /\ last.answer \in YesAnswers)

\* C9 amended: in an agent without auto_confirm, a tool of level
\* RequiresConfirmation, other than a run_command whose command is
\* classified Safe, is executed only after a prompt answered y or yes.
C9_ExecutedOnlyAfterYes_Interactive ==
    (/\ last.executed
     /\ permission_level(last.name) = "RequiresConfirmation"
     /\ ~auto_confirm
     /\ last.class # "Safe") =>
        (last.prompted /\ last.answer \in YesAnswers)

\* C9 witness: the interactive agent ran install_package after " Yes "
C9_Witness ==
    /\ ~auto_confirm
    /\ last.executed /\ last.name = "install_package"
    /\ last.prompted /\ last.answer = " Yes "

\* C10: an execute_tool whose prompt is answered with anything but y/yes
\* does not run the tool, gives a ToolResult for the same id that is not an
\* error and carries the cancelled message, calls log_command with
\* CANCELLED, and the turn goes on: with the next tool, or, the results
\* pushed, with the next provider round-trip or the Ok of the exhausted cap.
C10_CancelIsNotAnError ==
    [][(pc = "tool" /\ last'.prompted /\ last'.answer \notin YesAnswers) =>
          /\ ~last'.executed /\ last'.spawned = None
          /\ last'.block = ToolResultBlock(Head(pending).id, StrCancelled, FALSE)
          /\ last'.audit.status = "CANCELLED"
          /\ fs = "ok" => audit' = Append(audit, last'.audit)
          /\ \/ pc' = "tool" /\ pending' = Tail(pending)
                  /\ tool_results' = Append(tool_results, last'.block)
             \/ pc' = "provider"
                  /\ conversation'[Len(conversation')].content
                         = Append(tool_results, last'.block)
             \/ pc' = "idle" /\ ret'.ok /\ iterations' > MAX_TOOL_LOOP_ITERATIONS
                  /\ inner'[Len(inner')].content = Append(tool_results, last'.block)]_vars

\* C10 witness: the second tool of a completion was cancelled with "n" and
\* the turn went on to the next round-trip
C10_Witness ==
    /\ last.decision = "cancelled" /\ last.answer = "n" /\ last.id = "t2"
    /\ pc = "provider"
    /\ Len(conversation) = 3

\* the statuses of the audit log
AuditStatuses == {"SAFE", "CONFIRMED", "BLOCKED", "CANCELLED", "FAILED"}

\* C11: every execute_tool hands one record to the audit log, with a status
\* among SAFE, CONFIRMED, BLOCKED, CANCELLED, FAILED that names what happened
\* (CONFIRMED only after prompt_confirmation was called and returned true, an
\* unknown tool name is recorded too); the record is appended to the log when
\* the log can be written, and when it cannot the ToolResult and the turn are
\* the same.
C11_OneAuditRecordPerCall ==
    [][pc = "tool" =>
          /\ last'.audit # NoAudit
          /\ last'.audit.status \in AuditStatuses
          /\ last'.audit.status = "CONFIRMED" => (last'.asked /\ last'.result = "Ok")
          /\ last'.audit.status = "SAFE" =>
                 (permission_level(last'.name) = "Safe" /\ last'.result = "Ok")
          /\ last'.audit.status = "FAILED" => last'.result = "Err"
          /\ last'.audit.status = "BLOCKED" => (last'.decision = "blocked" /\ ~last'.executed)
          /\ last'.audit.status = "CANCELLED" =>
                 (last'.decision = "cancelled" /\ ~last'.executed)
          /\ fs = "ok" => audit' = Append(audit, last'.audit)
          /\ fs # "ok" => audit' = audit]_vars

\* the turn goes on after the execute_tool of this step with the block b:
\* with the next tool, or, the results pushed, with the next provider
\* round-trip or the Ok of the exhausted cap
TurnGoesOn(b) ==
    \/ pc' = "tool" /\ pending' = Tail(pending) /\ tool_results' = Append(tool_results, b)
    \/ pc' = "provider"
         /\ conversation'[Len(conversation')].content = Append(tool_results, b)
    \/ pc' = "idle" /\ ret'.ok /\ iterations' > MAX_TOOL_LOOP_ITERATIONS
         /\ inner'[Len(inner')].content = Append(tool_results, b)

\* C12: an execute_tool for an unknown tool name, or one whose tool.execute
\* returns Err (invalid input, non-zero exit, timeout, I/O error), gives a
\* ToolResult for the same id with is_error set, and the turn goes on; a
\* turn ends with Err only for a provider or a memory error.
C12_ToolFailureDoesNotAbort ==
    /\ [][(pc = "tool" /\ (last'.decision = "unknown" \/ last'.result = "Err")) =>
             /\ last'.block.tool_use_id = Head(pending).id
             /\ last'.block.is_error
             /\ TurnGoesOn(last'.block)]_vars
    /\ []((pc = "idle" /\ ~ret.ok) => ret.value \in {"Provider error", "Memory error"})

\* C12 witness: a shell command was run and failed, its error result was
\* pushed and the next provider round-trip has started
C12_Witness ==
    /\ last.result = "Err" /\ last.spawned = "df -h"
    /\ pc = "provider" /\ ncalls = 1
    /\ conversation[Len(conversation)].content
           = <<ToolResultBlock("t1", "Error: Command failed", TRUE)>>

\* the index of the last assistant message of a conversation, 0 if none
LastAssistant(conv) ==
    IF \E i \in 1..Len(conv) : conv[i].role = "assistant"
    THEN CHOOSE i \in 1..Len(conv) :
             /\ conv[i].role = "assistant"
             /\ \A j \in (i + 1)..Len(conv) : conv[j].role # "assistant"
    ELSE 0

\* while the tools of a completion are executed: the results so far answer
\* the first ToolUse blocks in their order, the tool uses still to run are
\* the remaining blocks in their order, and the last tool run is the block
\* before them
RunInOrder ==
    pc = "tool" =>
        LET m == conversation[Len(conversation)]
            uses == SelectBlocks(m.content, "tool_use")
            k == Len(tool_results)
        IN  /\ m.role = "assistant"
            /\ k < Len(uses)
            /\ pending = SubSeq(uses, k + 1, Len(uses))
            /\ \A i \in 1..k : tool_results[i].tool_use_id = uses[i].id
            /\ k > 0 => last.id = uses[k].id

\* C13 as claimed: when the loop of chat has handled a tool_use completion
\* (the next provider.complete is called), the completion's assistant message
\* is followed by exactly one user message whose ToolResult blocks answer its
\* n ToolUse blocks in order, for every n; the tools ran one at a time in
\* that order.
C13_OneResultMessageInOrder ==
    /\ RunInOrder
    /\ (pc = "provider" /\ ncalls > 0) =>
           /\ LastAssistant(conversation) = Len(conversation) - 1
           /\ Answered(conversation, Len(conversation) - 1)

\* C13 amended: the same for n >= 1; after a tool_use completion without
\* ToolUse blocks no message is appended.
C13_OneResultMessageInOrder_NonEmpty ==
    /\ RunInOrder
    /\ (pc = "provider" /\ ncalls > 0) =>
           LET a == LastAssistant(conversation)
           IN  /\ a > 0
               /\ IF SelectBlocks(conversation[a].content, "tool_use") # <<>>
                  THEN a = Len(conversation) - 1 /\ Answered(conversation, a)
                  ELSE a = Len(conversation)

\* C13 witness: a completion with two ToolUse blocks was handled; t2 ran
\* last and the message pushed holds the results of t1 and t2 in this order
C13_Witness ==
    /\ pc = "provider" /\ ncalls = 1
    /\ last.id = "t2"
    /\ Len(conversation) = 3
    /\ IdsOf(conversation[3].content, "tool_result") = <<"t1", "t2">>

\* C14: when the cap is exhausted chat returns Ok with the text blocks of the
\* most recent assistant message of the turn.
C14_CapReturnsLastAssistantText ==
    (pc = "idle" /\ turns > 0 /\ CapExhausted(iterations)) =>
        /\ ret.ok
        /\ LastAssistant(inner) > 0
        /\ ret.value = TextOf(inner[LastAssistant(inner)].content)

\* C15: the result of check is Blocked, with the non-empty reason of the
\* first blocked rule that matches, for every command that a blocked rule
\* matches, whether a confirmation rule matches too or not; otherwise it is
\* RequiresConfirmation with the reason of the first confirmation rule that
\* matches; it is Safe when no rule matches.
C15_BlockedFirstThenConfirm ==
    \A i \in 1..Len(checks) :
        LET c == checks[i].command
            r == checks[i].result
            B == BlockedMatches(c)
            K == ConfirmMatches(c)
        IN  /\ B # {} =>
                  /\ r.kind = "Blocked" /\ r.reason # ""
                  /\ \E b \in B : (\A b2 \in B : b <= b2) /\ r.reason = blocked_patterns[b]
            /\ (B = {} /\ K # {}) =>
                  /\ r.kind = "RequiresConfirmation"
                  /\ \E k \in K : (\A k2 \in K : k <= k2) /\ r.reason = confirm_patterns[k]
            /\ (B = {} /\ K = {}) => r.kind = "Safe"
            /\ (c = "rm -rf /") => r.reason = "Recursive deletion of root filesystem"
            /\ (c = "sudo pacman -Syu") => r.reason = "System update"

\* C15 witness: a command that two blocked rules and a confirmation rule
\* match was checked, and the reason is the one of the earlier blocked rule
C15_Witness ==
    \E i \in 1..Len(checks) :
        /\ checks[i].command = "sudo shred /dev/sda > /dev/sdb"
        /\ checks[i].result = [kind |-> "Blocked", reason |-> "Raw write to block device"]

Handling(c) == conns[c].stage \in {"lock", "chat", "qlock", "drain", "write"}

\* connection c reads a line in this step
Reads(c) == conns'[c].nlines = conns[c].nlines + 1

InvalidJson == error_response(<<>>, "Invalid JSON: parse error")

\* C18: reading a line that does not parse gives the error envelope as the
\* response to write (type response, body "Error: ..."), changes nothing in
\* the agent, its lock or the queue, and the connection goes on: after the
\* write, done or failed, the next line is read and handled like any other.
C18_MalformedLineAnswered ==
    /\ [][\A c \in Conns :
            (Reads(c) /\ conns'[c].nbad = conns[c].nbad + 1) =>
                /\ conns'[c].line \in {Line("not_json", None), Line("bad_type", None)}
                /\ conns'[c].stage = "write"
                /\ conns'[c].resp = InvalidJson
                /\ InvalidJson.msg_type = "response"
                /\ InvalidJson.body = Some("Error: " \o "Invalid JSON: parse error")
                /\ UNCHANGED <<agent_vars, lock, notify_queue>>
                /\ \A d \in Conns \ {c} : conns'[d] = conns[d]]_vars
    /\ [][\A c \in Conns :
            (conns[c].stage = "write" /\ conns[c].resp = InvalidJson) =>
                /\ conns'[c].stage \in {"write", "read"}
                /\ conns'[c].nresp + conns'[c].nfailed
                       <= conns[c].nresp + conns[c].nfailed + 1]_vars
    /\ [](\A c \in Conns :
            /\ conns[c].nbad <= conns[c].nlines - conns[c].nblank
            /\ (conns[c].stage = "write" /\ ~from_str(trim(conns[c].line)).ok) =>
                   conns[c].resp = InvalidJson)

\* C18 witness: after a line that did not parse, the same connection got the
\* reply of the agent to a message
C18_Witness ==
    \E c \in Conns :
        /\ conns[c].nbad = 1 /\ conns[c].nlines = 2 /\ conns[c].nresp = 2
        /\ conns[c].resp = Response(Some("A"), Some("reply"), <<>>)
        /\ "A" \in DOMAIN user_conversations

\* the lines of type message without `from` or without `body`
IncompleteMessages == {Line("no_from", None)} \cup {Line("no_body", p) : p \in Identities}

\* C19: reading a message line without `from` or without `body` gives an
\* error envelope as the response to write, addressed to `from` when it is
\* there, without a wait for the agent lock and without any change of the
\* agent (no provider call, no conversation created or changed).
C19_IncompleteMessageRejected ==
    /\ [][\A c \in Conns :
            (Reads(c) /\ conns'[c].line \in IncompleteMessages) =>
                /\ conns'[c].stage = "write"
                /\ conns'[c].resp =
                       IF conns'[c].line = Line("no_from", None)
                       THEN error_response(<<>>, "Missing 'from' field")
                       ELSE error_response(from_str(conns'[c].line).from, "Missing 'body' field")
                /\ UNCHANGED <<agent_vars, lock, notify_queue>>]_vars
    /\ [](\A c \in Conns :
            conns[c].stage \in {"lock", "chat"} => conns[c].line \notin IncompleteMessages)
    /\ [](\A c \in Conns :
            (conns[c].stage = "write" /\ conns[c].line \in IncompleteMessages) => lock # c)

\* C19 witness: a message without body was answered with the error envelope
\* addressed to its sender while the agent has no conversation at all
C19_Witness ==
    \E c \in Conns :
        /\ conns[c].stage = "read" /\ conns[c].nresp = 1
        /\ conns[c].resp = error_response(Some("A"), "Missing 'body' field")
        /\ user_conversations = EmptyMap /\ turns = 0 /\ lock = None

\* C20: a poll_notifications returns the first min(10, len) items of the
\* queue in their order and leaves the other items in the queue, in their
\* order.
C20_PollDrainsFirstTen ==
    [][\A c \in Conns :
          (conns[c].stage = "drain" /\ conns'[c].stage = "write"
              /\ conns[c].line = Line("poll", None)) =>
              LET q == notify_queue
                  n == IF Len(q) <= 10 THEN Len(q) ELSE 10
                  batch == conns'[c].resp.notifications[1]
              IN  /\ conns'[c].resp.notifications # <<>>
                  /\ Len(batch) = n
                  /\ \A i \in 1..n : batch[i] = q[i]
                  /\ Len(notify_queue') = Len(q) - n
                  /\ \A i \in 1..(Len(q) - n) : notify_queue'[i] = q[n + i]
                  /\ q = batch \o notify_queue']_vars

\* C20 witness: a poll has taken 10 items of a queue of 12
C20_Witness ==
    \E c \in Conns :
        /\ conns[c].line = Line("poll", None)
        /\ conns[c].resp.notifications # <<>>
        /\ Len(conns[c].resp.notifications[1]) = 10
        /\ Len(notify_queue) = 2
        /\ notify_queue[1].body = 6

\* the first provider.complete of a chat_as_user of an identity that had no
\* stored conversation when the call started
FirstCallWithoutStored ==
    /\ pc = "provider" /\ kind = "chat_as_user" /\ ncalls = 0
    /\ phone \notin DOMAIN pre.user_conversations

\* C21 as stated: after the action `reset` from identity A, A has no stored
\* conversation, and the next message from A is answered from a conversation
\* that holds only the new message; nothing of a turn from before the reset
\* is in the input of provider.complete (system prompt and messages).
C21_ResetForgetsEarlierTurns ==
    /\ (pc = "idle" /\ kind = "reset_user_conversation") =>
           phone \notin DOMAIN user_conversations
    /\ FirstCallWithoutStored =>
           /\ conversation = <<MessageUser(UserText(phone), phone)>>
           /\ system_prompt.memory_ctx = build_context(<<"# today", UserText(phone)>>)

\* C21 amended: after the action `reset` from identity A, A has no stored
\* conversation, and the next message from A is answered from a conversation
\* that holds only the new message: the message list handed to
\* provider.complete holds no message of a turn from before the reset.
C21_ResetDropsStoredConversation ==
    /\ (pc = "idle" /\ kind = "reset_user_conversation") =>
           phone \notin DOMAIN user_conversations
    /\ FirstCallWithoutStored =>
           conversation = <<MessageUser(UserText(phone), phone)>>

\* C21 witness: A's first turn was answered, A was reset, and A's next
\* message is at its first provider.complete (A's turns always store a
\* conversation, so its absence at the start of the call is the reset's)
C21_Witness ==
    /\ FirstCallWithoutStored /\ phone = "A"
    /\ daily = <<"# today", UserText("A"), "AI: reply", UserText("A")>>
    /\ \E c \in Conns : conns[c].stage = "chat" /\ conns[c].nresp >= 1

\* C22: an action envelope with an unknown or missing action name, and an
\* envelope of type response, are answered with an error envelope, change
\* neither the agent nor the queue nor the lock, and the connection reads its
\* next line after the write; ping is answered with the body "pong".
C22_BadEnvelopeAnswered ==
    [][\A c \in Conns :
          /\ (Reads(c) /\ conns'[c].line = Line("bad_action", "A")) =>
                 /\ conns'[c].stage = "write"
                 /\ conns'[c].resp = Response(Some("A"), Some("Error: Unknown action: dance"), <<>>)
                 /\ UNCHANGED <<agent_vars, notify_queue, lock>>
          /\ (Reads(c) /\ conns'[c].line = Line("no_action", None)) =>
                 /\ conns'[c].stage = "write"
                 /\ conns'[c].resp = Response(<<>>, Some("Error: Unknown action: "), <<>>)
                 /\ UNCHANGED <<agent_vars, notify_queue, lock>>
          /\ (Reads(c) /\ conns'[c].line = Line("response", "A")) =>
                 /\ conns'[c].stage = "write"
                 /\ conns'[c].resp =
                        Response(<<>>, Some("Error: Unexpected message type 'response' from client"),
                                 <<>>)
                 /\ UNCHANGED <<agent_vars, notify_queue, lock>>
          /\ (Reads(c) /\ conns'[c].line = Line("ping", "A")) =>
                 /\ conns'[c].stage = "write"
                 /\ conns'[c].resp = Response(Some("A"), Some("pong"), <<>>)
                 /\ UNCHANGED <<agent_vars, notify_queue, lock>>
          /\ (conns[c].stage = "write" /\ conns'[c].nresp = conns[c].nresp + 1
                 /\ conns[c].line \in {Line("bad_action", "A"), Line("no_action", None),
                                       Line("response", "A"), Line("ping", "A")}) =>
                 conns'[c].stage = "read"]_vars

\* C22 witness: while the other connection is inside a turn of A and the
\* queue holds notifications, a connection that was answered an unknown
\* action and has read an envelope of type response is about to write the
\* error envelope
C22_Witness ==
    \E c \in Conns :
        /\ conns[c].stage = "write" /\ conns[c].line = Line("response", "A")
        /\ conns[c].nresp = 1 /\ conns[c].nlines = 2
        /\ lock \in Conns \ {c} /\ pc = "provider"
        /\ notify_queue # <<>>
        /\ conns[c].resp.body = Some("Error: Unexpected message type 'response' from client")

\* the fields that are an integer or `*/N` with an integer N, with the
\* integer (4294967295 is the largest u32 and is above every value)
ExactFields ==
    {[text |-> <<"0">>, n |-> 0], [text |-> <<"5">>, n |-> 5], [text |-> <<"0", "5">>, n |-> 5],
     [text |-> <<"+", "5">>, n |-> 5], [text |-> <<"1", "2">>, n |-> 12]}
StepFields ==
    {[text |-> <<"*", "/", "5">>, n |-> 5], [text |-> <<"*", "/", "1">>, n |-> 1],
     [text |-> <<"*", "/", "+", "3">>, n |-> 3], [text |-> <<"*", "/", "0">>, n |-> 0]}
HugeFields ==
    {<<"4", "2", "9", "4", "9", "6", "7", "2", "9", "5">>,
     <<"4", "2", "9", "4", "9", "6", "7", "2", "9", "6">>}
HugeStepFields == {<<"*", "/", "4", "2", "9", "4", "9", "6", "7", "2", "9", "5">>}

\* C30: `*` matches every value; an integer n matches v iff n = v; `*/N`
\* matches v iff N parses as an integer (a u32), N > 0 and v mod N = 0, so
\* `*/0` and `*/x` never match; any other text never matches.
C30_FieldMatching ==
    \A i \in 1..Len(matched) :
        LET f == matched[i].field
            v == matched[i].value
        IN  matched[i].result =
               (CASE f = <<"*">> -> TRUE
                  [] \E e \in ExactFields : e.text = f ->
                       (CHOOSE e \in ExactFields : e.text = f).n = v
                  [] \E e \in StepFields : e.text = f ->
                       LET n == (CHOOSE e \in StepFields : e.text = f).n
                       IN  n > 0 /\ v % n = 0
                  [] f \in HugeFields -> FALSE
                  [] f \in HugeStepFields -> v = 0
                  [] OTHER -> FALSE)

\* C30 witness: `*/5` was found to match 10, or `*/0` not to match 0
C30_Witness ==
    \E i \in 1..Len(matched) :
        \/ matched[i] = [field |-> <<"*", "/", "5">>, value |-> 10, result |-> TRUE]
        \/ matched[i] = [field |-> <<"*", "/", "0">>, value |-> 0, result |-> FALSE]

\* C31: cron_matches is true iff the schedule has exactly 5 fields and they
\* match, in this order, minute, hour, day of month, month and day of week
\* (Sunday = 0): "0 9 * * *" matches exactly 09:00, "0 */6 * * *" exactly
\* minute 0 of the hours 0, 6, 12, 18, and a schedule of 4 (or 6) fields
\* matches no time.
C31_CronMatches ==
    \A i \in 1..Len(matched) :
        LET s == matched[i].schedule
            t == matched[i].now
            fields == split_whitespace(s)
        IN  /\ matched[i].result =
                   (/\ Len(fields) = 5
                    /\ field_matches(fields[1], t.minute)
                    /\ field_matches(fields[2], t.hour)
                    /\ field_matches(fields[3], t.day)
                    /\ field_matches(fields[4], t.month)
                    /\ field_matches(fields[5], t.weekday))
            /\ matched[i].result =
                   (CASE s \in {DailyAtNine, Padded} -> t.hour = 9 /\ t.minute = 0
                      [] s = EverySixHours -> t.minute = 0 /\ t.hour \in {0, 6, 12, 18}
                      [] s = SundayAtNine -> t.hour = 9 /\ t.minute = 0 /\ t.weekday = 0
                      [] s = OneDate ->
                           t.minute = 1 /\ t.hour = 0 /\ t.day = 22 /\ t.month = 2
                      [] OTHER -> FALSE)

\* C31 witness: "0 */6 * * *" was found to match 18:00, or "0 9 * * *" not
\* to match 09:01, or the schedule of 4 fields not to match 09:00
C31_Witness ==
    \E i \in 1..Len(matched) :
        \/ /\ matched[i].schedule = EverySixHours /\ matched[i].result
            /\ matched[i].now.hour = 18
        \/ /\ matched[i].schedule = DailyAtNine /\ ~matched[i].result
            /\ matched[i].now.hour = 9 /\ matched[i].now.minute = 1
        \/ /\ matched[i].schedule = FourFields /\ ~matched[i].result
            /\ matched[i].now.hour = 9 /\ matched[i].now.minute = 0

\* the scheduler's sleep returns in this step
Wakes == sched'.wakes = sched.wakes + 1

\* C25: with a clock that does not go back, no automation is triggered twice
\* for the same wall-clock minute, whatever the wakes; a wake whose (hour,
\* minute) is the last processed one triggers nothing.
C25_OncePerMinute ==
    /\ [](\A i, j \in 1..Len(sched.runs) :
            (sched.runs[i].name = sched.runs[j].name /\ sched.runs[i].at = sched.runs[j].at)
                => i = j)
    /\ [][(Wakes /\ sched.last_minute # <<>>
             /\ sched.last_minute[1] = <<Times[clock'].hour, Times[clock'].minute>>) =>
              /\ sched'.runs = sched.runs
              /\ sched'.stage = "sleep"
              /\ sched'.cycles = sched.cycles
              /\ UNCHANGED <<notify_queue, lock, agent_vars>>]_vars

\* C25 witness: the sleep has returned twice in the minute of 09:00 of the
\* first day, and the automation of 09:00 was triggered in the first wake
C25_Witness ==
    /\ sched.wakes = 2 /\ sched.cycles = 1 /\ clock = 1 /\ sched.at = 1
    /\ Len(sched.runs) >= 1 /\ sched.runs[1].name = "daily"
    /\ sched.stage = "sleep"

\* The positions, among the automations read from a file, of those that are
\* enabled and whose schedule matches Times[t]: of BusyFile, "daily" (1) at
\* 09:00 and "mail" (3) at any time; of OddFile, whose entry without action
\* is not read, the entry with the default schedule (1) at 09:00
ExpectedRuns(file, t) ==
    CASE file = BusyFile -> IF t \in {1, 3} THEN <<1, 3>> ELSE <<3>>
      [] file = OddFile -> IF t \in {1, 3} THEN <<1>> ELSE <<>>
      [] OTHER -> <<>>

\* the runs of a cycle: positions, and the results that are there
RunsOf(cyc) == SelectSeq(sched.runs, LAMBDA r : r.cycle = cyc)

\* run_automation returns to the scheduler in this step
RunReturns == sched.stage = "run" /\ pc' = "idle"

\* C26: when run_automation returns an error, the scheduler builds an error
\* notification that names the automation and goes on: the other automations
\* of the cycle are run, the scheduler is back in its sleep at the end of the
\* cycle, and it never leaves its loop.
C26_FailureDoesNotStopScheduler ==
    /\ [][(RunReturns /\ ~ret'.ok) =>
              /\ sched'.message = "Blunux AI Agent - " \o sched.cfg[sched.idx].name
                                     \o ": automation error: Provider error"
              /\ sched'.stage \in {"qlock", "lock", "sleep"}
              /\ sched'.cfg = sched.cfg /\ sched'.now = sched.now]_vars
    /\ [](sched.stage \in {"sleep", "lock", "run", "qlock", "push"})
    /\ [](sched.stage = "sleep" =>
            LET done == RunsOf(sched.cycles)
                expected == ExpectedRuns(sched.loaded, sched.at)
            IN  /\ Len(done) = Len(expected)
                /\ \A i \in 1..Len(done) :
                       done[i].idx = expected[i] /\ done[i].result \in {"Ok", "Err"})

\* C26 witness: the first automation of a cycle failed, the second one of
\* that cycle was run, and so was an automation of a later cycle; the error
\* notification is in the queue
C26_Witness ==
    /\ Len(sched.runs) >= 3
    /\ sched.runs[1].result = "Err" /\ sched.runs[1].name = "daily"
    /\ sched.runs[2].cycle = sched.runs[1].cycle /\ sched.runs[2].result = "Ok"
    /\ sched.runs[3].cycle > sched.runs[1].cycle /\ sched.runs[3].result = "Ok"
    /\ notify_queue # <<>>
    /\ notify_queue[1].body = "Blunux AI Agent - daily: automation error: Provider error"

\* the names of the automations read from a file, in their order
ExpectedNames(file) ==
    CASE file = BusyFile -> <<"daily", "off", "mail">>
      [] file = OddFile -> <<"unnamed", "short", "never">>
      [] OTHER -> <<>>

\* C28: in a cycle run_automation is called for the definitions that are
\* enabled and whose schedule matches the time read at the wake, in their
\* order, and for no other; a disabled definition is never run; the
\* definitions are those of the file as it is at the wake, and the cycle
\* keeps them, and its time, whatever happens to the file.
C28_RunsEnabledAndMatching ==
    /\ [](LET done == RunsOf(sched.cycles)
              expected == ExpectedRuns(sched.loaded, sched.at)
          IN  /\ Len(done) <= Len(expected)
              /\ \A i \in 1..Len(done) : done[i].idx = expected[i]
              /\ sched.stage = "sleep" => Len(done) = Len(expected))
    /\ [](\A i \in 1..Len(sched.runs) : sched.runs[i].name # "off")
    /\ [][(Wakes /\ sched'.cycles # sched.cycles) =>
              /\ sched'.loaded = store
              /\ sched'.now = Times[clock'] /\ sched'.at = clock'
              /\ Len(sched'.cfg) = Len(ExpectedNames(store))
              /\ \A i \in 1..Len(sched'.cfg) : sched'.cfg[i].name = ExpectedNames(store)[i]]_vars
    /\ [][sched'.cycles = sched.cycles =>
              (sched'.cfg = sched.cfg /\ sched'.now = sched.now)]_vars

\* C28 witness: the file was replaced after a cycle that ran "daily" and
\* "mail"; a later cycle at 09:00 has run the entry of the new file that
\* has the default schedule, and nothing else
C28_Witness ==
    /\ nedits = 1 /\ store = OddFile /\ sched.loaded = OddFile
    /\ sched.stage = "sleep" /\ sched.at = 3
    /\ Len(sched.runs) = 3
    /\ sched.runs[1].name = "daily" /\ sched.runs[2].name = "mail"
    /\ sched.runs[3].name = "unnamed" /\ sched.runs[3].result = "Ok"

\* C29: when automations.toml is missing, unreadable, not TOML or without
\* the `automation` array, load returns no automation, and the cycle ends
\* in the sleep having triggered nothing and pushed nothing.
C29_NoStoreNoAutomations ==
    /\ [](\A st \in {"missing", "unreadable", "bad_toml", "no_array"} :
            load(File(st, <<>>)) = <<>>)
    /\ [][(Wakes /\ sched'.cycles # sched.cycles /\ store.state # "ok") =>
              /\ sched'.cfg = <<>>
              /\ sched'.stage = "sleep"
              /\ sched'.runs = sched.runs
              /\ UNCHANGED <<notify_queue, lock, qlock, agent_vars>>]_vars

\* C29 witness: after a cycle that ran two automations the file was removed,
\* and the next cycle has ended with nothing more triggered
C29_Witness ==
    /\ sched.cycles = 2 /\ sched.stage = "sleep"
    /\ sched.loaded = File("missing", <<>>) /\ sched.cfg = <<>>
    /\ Len(sched.runs) = 2 /\ sched.runs[2].cycle = 1
    /\ Len(notify_queue) = 2

\* C23: a connection that reads from or writes to its socket holds neither
\* the agent lock nor the lock of the queue: the agent lock is held exactly
\* by the task that is inside a chat turn or an automation run (a reset
\* takes and drops it in one step), the lock of the queue exactly by the
\* task that drains or pushes, and both are free again before the response
\* is written.
C23_NoLockAcrossSocketIO ==
    /\ \A c \in Conns :
           /\ conns[c].stage \in {"read", "write", "closed"} => (lock # c /\ qlock # c)
           /\ lock = c <=> conns[c].stage = "chat"
           /\ qlock = c <=> conns[c].stage = "drain"
    /\ lock = "scheduler" <=> sched.stage = "run"
    /\ qlock = "scheduler" <=> sched.stage = "push"
    /\ lock # None <=> pc # "idle"
    /\ lock \in Conns \cup {"scheduler", None}
    /\ qlock \in Conns \cup {"scheduler", None}

\* C23 witness: a connection writes the response of its poll while the
\* scheduler is inside an automation run and the other connection waits for
\* the agent lock
C23_Witness ==
    \E c, d \in Conns :
        /\ conns[c].stage = "write" /\ conns[c].line = Line("poll", None)
        /\ conns[c].resp.notifications # <<>>
        /\ conns[d].stage = "lock"
        /\ lock = "scheduler" /\ pc = "provider"

\* the tasks that are inside a turn
InTurn ==
    {c \in Conns : conns[c].stage = "chat"} \cup
    (IF sched.stage = "run" THEN {"scheduler"} ELSE {})

Notifications(message) == <<[to |-> "A", body |-> message], [to |-> "B", body |-> message]>>

\* the queue is changed only by the pushes of the scheduler and by the
\* drain of a poll_notifications, which takes items from the front
QueueKept ==
    notify_queue' # notify_queue =>
        \/ sched.stage = "push"
        \/ \E c \in Conns :
               /\ conns[c].stage = "drain" /\ conns[c].line = Line("poll", None)
               /\ conns'[c].resp.notifications # <<>>
               /\ notify_queue = conns'[c].resp.notifications[1] \o notify_queue'

\* the pushes of one run: one notification for each allowed number, in
\* their order, with the message of the run
PushesOnePerRecipient ==
    /\ RunReturns =>
           sched'.message =
               "Blunux AI Agent - " \o sched.cfg[sched.idx].name \o
               (IF ret'.ok THEN ": " ELSE ": automation error: ") \o ret'.value
    /\ (sched.stage = "push" /\ sched'.stage # "push") =>
           notify_queue' = notify_queue \o Notifications(sched.message)
    /\ sched.stage \in {"qlock", "push"} => sched'.message = sched.message

\* C27 as stated: each time an automation is triggered and run, one
\* notification for each allowed number is appended to the queue, in their
\* order and with the same body; the scheduler writes to no connection, and
\* the items stay in the queue until a poll_notifications drains them.
C27_OneNotificationPerRecipient ==
    [][/\ RunReturns => sched'.stage = "qlock"
       /\ PushesOnePerRecipient
       /\ QueueKept
       /\ sched' # sched => conns' = conns]_vars

\* C27 amended: the same for an automation whose channel is "whatsapp"; the
\* result of an automation with another channel is dropped, and the queue
\* is not changed.
C27_OneNotificationPerRecipient_WhatsApp ==
    [][/\ (RunReturns /\ sched.cfg[sched.idx].notify = "whatsapp") => sched'.stage = "qlock"
       /\ (RunReturns /\ sched.cfg[sched.idx].notify # "whatsapp") =>
              (sched'.stage \in {"lock", "sleep"} /\ notify_queue' = notify_queue)
       /\ PushesOnePerRecipient
       /\ QueueKept
       /\ sched' # sched => conns' = conns]_vars

\* C27 witness: the notifications of the run of "daily" were pushed while
\* "mail" was run too, and a poll has drained them
C27_Witness ==
    /\ Len(sched.runs) = 2 /\ sched.runs[2].name = "mail" /\ sched.runs[2].result = "Ok"
    /\ notify_queue = <<>>
    /\ \E c \in Conns :
           /\ conns[c].stage = "write"
           /\ conns[c].resp.notifications = Some(Notifications("Blunux AI Agent - daily: reply"))

\* the chat_as_user of connection c returns in this step
TurnReturns(c) == lock = c /\ conns[c].stage = "chat" /\ pc # "idle" /\ pc' = "idle"

\* C32: when the provider fails during the turn of a message, the daemon
\* answers with one error envelope addressed to the sender, drops the agent
\* lock and leaves every connection open: the response is written, the
\* connection reads its next line, and a later turn that succeeds is
\* answered with its reply.
C32_ProviderFailureAnswered ==
    /\ [](lock = None <=> pc = "idle")
    /\ [](\A c \in Conns : conns[c].stage # "closed")
    /\ [][\A c \in Conns :
             LET p == from_str(trim(conns[c].line)).from
             IN  /\ (TurnReturns(c) /\ ~ret'.ok) =>
                        /\ conns'[c].stage = "write"
                        /\ conns'[c].resp = Response(p, Some("Error: Provider error"), <<>>)
                        /\ conns'[c].nresp = conns[c].nresp
                        /\ lock' = None
                        /\ \A d \in Conns \ {c} : conns'[d] = conns[d]
                 /\ (TurnReturns(c) /\ ret'.ok) =>
                        /\ conns'[c].stage = "write"
                        /\ conns'[c].resp = Response(p, Some("reply"), <<>>)
                        /\ lock' = None
                 /\ (conns[c].stage = "write" /\ conns'[c] # conns[c]) =>
                        /\ conns'[c].stage = "read"
                        /\ conns'[c].nresp = conns[c].nresp + 1]_vars

\* C32 witness: the first turn of A failed at the provider and its error was
\* written; on the same connection the second turn of A has succeeded and
\* its reply is being written, while the other connection writes its "pong"
C32_Witness ==
    \E c, d \in Conns :
        /\ c # d
        /\ conns[c].stage = "write" /\ conns[c].nresp = 1
        /\ conns[c].resp = Response(Some("A"), Some("reply"), <<>>)
        /\ turns = 2
        /\ daily = <<"# today", UserText("A"), UserText("A"), "AI: reply">>
        /\ conns[d].stage = "write" /\ conns[d].resp = Response(Some("A"), Some("pong"), <<>>)
        /\ lock = None

\* C33: in the daemon the active conversation slot of the agent is empty
\* whenever the agent lock is free (and nothing is saved aside): a turn of
\* chat_as_user or run_automation puts back what it found, and a reset does
\* not touch the slot.
C33_ActiveSlotEmptyWhenFree ==
    lock = None => (conversation = <<>> /\ saved = <<>>)

\* C33 witness: the lock is free after a turn of A, a reset of A and an
\* automation run
C33_Witness ==
    /\ lock = None
    /\ turns = 2 /\ Len(sched.runs) = 1
    /\ \E i \in 1..Len(daily) : daily[i] = UserText("A")
    /\ "A" \notin DOMAIN user_conversations
    /\ \E c \in Conns : conns[c].resp = Response(Some("A"), Some("Conversation reset."), <<>>)

\* the tasks of the daemon
Tasks == Conns \cup {"scheduler"}

\* the stage of a task
StageOf(t) == IF t = "scheduler" THEN sched.stage ELSE conns[t].stage

\* a task can take a lock or go on with the one it holds: the lock it waits
\* for is free, or the holder is inside provider.complete, a drain or the
\* pushes, none of which waits for a lock
CanStep ==
    \/ \E t \in Tasks : StageOf(t) = "lock" /\ lock = None
    \/ \E t \in Tasks : StageOf(t) = "qlock" /\ qlock = None
    \/ \E t \in Tasks : lock = t /\ StageOf(t) \in {"chat", "run"} /\ pc = "provider"
    \/ \E t \in Tasks : qlock = t /\ StageOf(t) \in {"drain", "push"}

\* C34: no task holds the agent lock and the lock of the queue at the same
\* time, and no task waits for one lock while it holds the other; so there
\* is no deadlock: whenever a task waits for a lock or holds one, a task can
\* take a lock or go on with the one it holds.
C34_NoTwoLocksNoDeadlock ==
    /\ \A t \in Tasks : ~(lock = t /\ qlock = t)
    /\ \A t \in Tasks : StageOf(t) = "qlock" => lock # t
    /\ \A t \in Tasks : StageOf(t) = "lock" => qlock # t
    /\ (\E t \in Tasks : StageOf(t) \in {"lock", "qlock"} \/ lock = t \/ qlock = t)
           => CanStep

\* C34 witness: the scheduler pushes with the lock of the queue while a
\* connection is inside a turn with the agent lock and the other connection
\* waits for the lock of the queue
C34_Witness ==
    \E c, d \in Conns :
        /\ qlock = "scheduler" /\ sched.stage = "push"
        /\ lock = c /\ conns[c].stage = "chat"
        /\ conns[d].stage = "qlock"

\* the notifications of the first n pushes of SchedPush, in their order
Enqueued(n) ==
    [i \in 1..(n * Len(allowed_numbers)) |->
        [to |-> allowed_numbers[((i - 1) % Len(allowed_numbers)) + 1],
         body |-> ((i - 1) \div Len(allowed_numbers)) + 1]]

\* C35: with connections polling concurrently while the scheduler pushes,
\* the batches returned by the polls, in the order in which the polls took
\* the lock of the queue, followed by the queue, are the notifications
\* enqueued so far: none is lost and none is returned twice; the batch in
\* the response of a poll is what that poll took.
C35_NothingLostOrDuplicated ==
    /\ [](polled \o notify_queue = Enqueued(npushes))
    /\ [](\A i, j \in 1..Len(polled) : polled[i] = polled[j] => i = j)
    /\ [][\A c \in Conns :
             (conns[c].stage = "drain" /\ conns'[c].stage = "write") =>
                 /\ conns'[c].resp.notifications # <<>>
                 /\ polled' = polled \o conns'[c].resp.notifications[1]]_vars

\* C35 witness: two connections waited for the lock of the queue at the same
\* time; one has taken the first 4 notifications, the other, after more
\* pushes, the next 4, and 2 pushed since are in the queue
C35_Witness ==
    \E c, d \in Conns :
        /\ c # d
        /\ npushes = 5
        /\ conns[c].resp.notifications = Some(SubSeq(Enqueued(5), 1, 4))
        /\ conns[d].resp.notifications = Some(SubSeq(Enqueued(5), 5, 8))
        /\ conns[d].stage = "write"
        /\ notify_queue = SubSeq(Enqueued(5), 9, 10)

\* the requests that do not need the agent
LockFree == {Line("ping", "A"), Line("poll", None)}

\* C36: ping and poll_notifications are never handled under the agent lock
\* nor wait for it, and are answered even if a turn of another connection or
\* an automation run keeps the agent lock for ever; a message, and a reset
\* with a non-empty `from`, wait for the lock and stay where they are while
\* another task holds it.
C36_PingAndPollDoNotWait ==
    /\ [](\A c \in Conns :
            conns[c].line \in LockFree => (conns[c].stage \notin {"lock", "chat"} /\ lock # c))
    /\ \A c \in Conns :
           (conns[c].line \in LockFree /\ Handling(c)) ~> (conns[c].stage = "read")
    /\ [][\A c \in Conns :
             /\ (Reads(c) /\ conns'[c].line \in {Line("message", "A"), Line("reset", "A")}) =>
                    conns'[c].stage = "lock"
             /\ (conns[c].stage = "lock" /\ lock # None) => conns'[c] = conns[c]
             /\ (conns[c].stage = "write" /\ conns'[c].stage = "read") =>
                    conns'[c].nresp = conns[c].nresp + 1]_vars

\* C36 witness: the scheduler is in the first provider.complete of an
\* automation run, one connection waits for the agent lock with a message,
\* and the other connection has read a ping and writes its response
C36_Witness ==
    \E c, d \in Conns :
        /\ lock = "scheduler" /\ pc = "provider" /\ ncalls = 0
        /\ conns[d].stage = "lock" /\ conns[d].line = Line("message", "A")
        /\ conns[c].stage = "write" /\ conns[c].line = Line("ping", "A")
        /\ conns[c].resp = Response(Some("A"), Some("pong"), <<>>)

\* the conversation the call in progress (or the last call) started from
CallBase ==
    CASE kind = "chat_as_user" ->
             IF phone \in DOMAIN pre.user_conversations THEN pre.user_conversations[phone]
             ELSE <<>>
      [] kind = "run_automation" -> <<>>
      [] OTHER -> pre.conversation

\* s is the start of t
IsPrefix(s, t) == Len(s) <= Len(t) /\ SubSeq(t, 1, Len(s)) = s

\* conv is `base`, one user message with a text, and then the messages of n
\* round-trips that asked for tools: n assistant messages, each followed by
\* the user-role message of its tool results when it has ToolUse blocks
BaseAndRoundTrips(conv, base, n) ==
    LET first == Len(base) + 1
        rest == (first + 1)..Len(conv)
        assts == {i \in rest : conv[i].role = "assistant"}
    IN  /\ IsPrefix(base, conv)
        /\ Len(conv) >= first
        /\ conv[first].role = "user"
        /\ Len(conv[first].content) = 1 /\ conv[first].content[1].type = "text"
        /\ Cardinality(assts) = n
        /\ \A i \in rest \ assts :
               /\ conv[i].role = "user"
               /\ i - 1 \in assts
               /\ IdsOf(conv[i].content, "tool_result") = IdsOf(conv[i - 1].content, "tool_use")
               /\ Len(conv[i].content) = Len(IdsOf(conv[i - 1].content, "tool_use"))
        /\ \A i \in assts :
               tool_uses(conv[i].content) # <<>> => (i + 1 \in rest \ assts)

\* C37: chat does not roll back: when provider.complete fails in round-trip
\* k of a call, the conversation the call leaves is the conversation it
\* started from, the new user message, and the messages of the k - 1
\* completed round-trips; and while a call is in progress its conversation
\* only grows at the end.
C37_NoRollbackOnFailure ==
    /\ [][(pc = "provider" /\ pc' = "idle" /\ ~ret'.ok) =>
              /\ inner' = conversation
              /\ BaseAndRoundTrips(inner', CallBase, ncalls)
              /\ ncalls' = ncalls + 1
              /\ kind = "chat" => conversation' = inner'
              /\ kind = "chat_as_user" => user_conversations'[phone] = inner']_vars
    /\ [][(pc # "idle" /\ pc' # "idle") => IsPrefix(conversation, conversation')]_vars
    /\ [](pc # "idle" => IsPrefix(CallBase, conversation) /\ Len(conversation) > Len(CallBase))

\* C37 witness: the provider failed in the third round-trip of a call that
\* started from a conversation of an earlier call, and the conversation
\* has the earlier messages, the new user message and the four messages of
\* the two round-trips
C37_Witness ==
    /\ pc = "idle" /\ ~ret.ok /\ ret.value = "Provider error"
    /\ ncalls = 3
    /\ CallBase # <<>>
    /\ Len(inner) = Len(CallBase) + 5
    /\ kind = "chat_as_user" /\ user_conversations[phone] = inner

\* the text of the completions that end a turn
ExpectedReply ==
    [c \in {EndTurnText.content, MaxTokensCut.content, TwoTexts.content, NoText.content} |->
        CASE c = EndTurnText.content -> "reply"
          [] c = MaxTokensCut.content -> "partial"
          [] c = TwoTexts.content -> "first\nsecond"
          [] OTHER -> ""]

\* C38: when a round-trip ends with end_turn or max_tokens, chat returns the
\* text blocks of that completion only, joined by newlines (the empty text
\* when it has none); the text of the earlier tool_use round-trips of the
\* turn stays in the conversation and is not in the reply.
C38_ReplyIsFinalCompletionText ==
    [][(pc = "provider" /\ pc' = "idle" /\ ret'.ok /\ ~CapExhausted(iterations')) =>
          LET final == inner'[Len(inner')]
          IN  /\ final.role = "assistant"
              /\ inner' = Append(conversation, final)
              /\ final.content \in DOMAIN ExpectedReply
              /\ ret'.value = ExpectedReply[final.content]
              /\ ncalls > 0 =>
                     \E i \in 1..Len(conversation) :
                         /\ conversation[i].role = "assistant"
                         /\ conversation[i].content \in {ToolUseDisk.content,
                                                         ToolUseNone.content}]_vars

\* C38 witness: after a tool_use round-trip with the text "checking", the
\* turn ended with a completion of two text blocks and the reply is these
\* two, joined by a newline
C38_Witness ==
    /\ pc = "idle" /\ ret.ok /\ ret.value = "first\nsecond"
    /\ ncalls = 2
    /\ \E i \in 1..Len(inner) : inner[i].content = ToolUseDisk.content

\* C39: whenever provider.complete is called, the first message of the
\* conversation has role user, the roles alternate strictly, and the last
\* message has role user, whatever the earlier calls were.
C39_RolesAlternate ==
    pc = "provider" =>
        /\ conversation # <<>>
        /\ conversation[1].role = "user"
        /\ \A i \in 1..(Len(conversation) - 1) :
               conversation[i].role # conversation[i + 1].role
        /\ conversation[Len(conversation)].role = "user"

\* C40: the time of a cycle is captured once, at the wake, and every
\* automation of the cycle is triggered because it is enabled and its schedule
\* matches that time, however many minute boundaries have passed since; a
\* later wake takes the time it finds, so that an automation whose schedule
\* matches only minutes that passed during the runs is not triggered.
C40_NoCatchUp ==
    [][/\ sched'.now # sched.now \/ sched'.at # sched.at =>
              /\ sched.stage = "sleep"
              /\ sched'.at = clock'
              /\ sched'.now = Times[clock']
       /\ Len(sched'.runs) > Len(sched.runs) =>
              LET r == sched'.runs[Len(sched'.runs)]
                  auto == sched'.cfg[r.idx]
              IN  /\ Len(sched'.runs) = Len(sched.runs) + 1
                  /\ r.at = sched'.at
                  /\ r.name = auto.name
                  /\ auto.enabled
                  /\ cron_matches(auto.schedule, Times[sched'.at])
                  /\ \A i \in 1..Len(sched.runs) :
                         sched.runs[i].cycle = r.cycle => sched.runs[i].at = r.at]_vars

\* C40 witness: the run of the cycle of Saturday 09:00 lasted past the
\* boundaries of 09:01 and of Sunday 09:00, the cycle of the next wake, at
\* 09:01 on Sunday, is over, and the automation of Sunday 09:00 was loaded
\* but never triggered
C40_Witness ==
    /\ sched.stage = "sleep" /\ sched.cycles = 2 /\ sched.at = 4
    /\ Len(sched.runs) = 2
    /\ sched.runs[1].at = 1 /\ sched.runs[2].at = 4
    /\ \E i \in 1..Len(sched.cfg) : sched.cfg[i].schedule = SundayAtNine
    /\ \A i \in 1..Len(sched.runs) : sched.runs[i].name # "sunday"

====
